---- MODULE Spec2Model ----
(***************************************************************************)
(* Model of the todoist-mcp meeting-note pipeline:                         *)
(*   - extractActionItems / inferPriority   (utils/meetingNotes.ts)        *)
(*   - parseDueDate                         (utils/dateParser.ts)          *)
(*   - routeTask / matchSection             (utils/router.ts)              *)
(*   - parseMeetingNotes                    (tools/tasks.ts)               *)
(* JavaScript strings are TLA+ strings; a character is a string of length  *)
(* one, read with SubSeq.  The bullet U+2022 of the source's character     *)
(* class [-*•] is not ASCII and is left out of the inputs.                 *)
(***************************************************************************)
EXTENDS Integers, Sequences, FiniteSets, TLC

VARIABLES
    \* routeTask
    taskContent, projects, hint, rpc, best, ruleIdx, scored, routeResult, via,
    \* extractActionItems
    text, lines, i, items, opened, xpc,
    \* parseMeetingNotes
    pmItems, pmProjects, pmHint, pmPc, pmIdx, pmSub, pmDest, pmTaskId, pmSummary,
    pmCreated, pmCalls, pmOutcome, pmResult,
    \* parseDueDate
    dText, dRef, dResults, dpc, dResult,
    \* the caller of extractActionItems: the number of the call and the
    \* value the call before returned
    xCalls, xFirst,
    \* the caller of routeTask: the number of the call
    rCalls,
    \* matchSection
    mContent, mSections, mIdx, mpc, mResult,
    \* TodoistClient: cache.projects, the last operation of the client and
    \* what happened to the cache last
    cache, cCall, cSince

routeVars == <<taskContent, projects, hint, rpc, best, ruleIdx, scored, routeResult, via>>
extractVars == <<text, lines, i, items, opened, xpc>>
pmVars == <<pmItems, pmProjects, pmHint, pmPc, pmIdx, pmSub, pmDest, pmTaskId, pmSummary,
            pmCreated, pmCalls, pmOutcome, pmResult>>
dateVars == <<dText, dRef, dResults, dpc, dResult>>
callVars == <<xCalls, xFirst, rCalls>>
sectionVars == <<mContent, mSections, mIdx, mpc, mResult>>
clientVars == <<cache, cCall, cSince>>
vars == <<routeVars, extractVars, pmVars, dateVars, callVars, sectionVars, clientVars>>

(***************************************************************************)
(* JavaScript string primitives                                            *)
(***************************************************************************)

\* The value null (sectionId: string | null, dueDate: string | null).  No
\* identifier or date of the model is this string.
Null == "<null>"

\* s[k - 1] as a string: empty when k is outside s.
CharAt(s, k) == IF k >= 1 /\ k <= Len(s) THEN SubSeq(s, k, k) ELSE ""

\* s.slice(from), for 0 <= from
Slice(s, from) == SubSeq(s, from + 1, Len(s))

\* s.slice(0, n) of a string or an array, for 0 <= n
SliceTo(s, n) == SubSeq(s, 1, IF n < Len(s) THEN n ELSE Len(s))

\* The characters \s matches and String.prototype.trim removes.
IsSpace(c) == c \in {" ", "\t", "\n", "\r"}

IsDigit(c) == c \in {"0", "1", "2", "3", "4", "5", "6", "7", "8", "9"}

UpperChars == "ABCDEFGHIJKLMNOPQRSTUVWXYZ"
LowerChars == "abcdefghijklmnopqrstuvwxyz"

\* Upper-case letter to lower-case letter, as toLowerCase and the i flag map them.
LowerOf ==
    [c \in {CharAt(UpperChars, k) : k \in 1..Len(UpperChars)} |->
        CharAt(LowerChars, CHOOSE k \in 1..Len(UpperChars) : CharAt(UpperChars, k) = c)]

LowerChar(c) == IF c \in DOMAIN LowerOf THEN LowerOf[c] ELSE c

RECURSIVE ToLowerCase(_)
ToLowerCase(s) ==
    IF Len(s) <= 1
    THEN LowerChar(s)
    ELSE LET h == Len(s) \div 2
         IN  ToLowerCase(SubSeq(s, 1, h)) \o ToLowerCase(SubSeq(s, h + 1, Len(s)))

\* \w of the regular expressions, on which \b depends.
LowerSet == {CharAt(LowerChars, k) : k \in 1..Len(LowerChars)}

IsWordChar(c) == IsDigit(c) \/ c = "_" \/ LowerChar(c) \in LowerSet

RECURSIVE TrimStart(_)
TrimStart(s) ==
    IF s # "" /\ IsSpace(CharAt(s, 1)) THEN TrimStart(Slice(s, 1)) ELSE s

RECURSIVE TrimEnd(_)
TrimEnd(s) ==
    IF s # "" /\ IsSpace(CharAt(s, Len(s)))
    THEN TrimEnd(SubSeq(s, 1, Len(s) - 1))
    ELSE s

Trim(s) == TrimEnd(TrimStart(s))

\* s.includes(sub)
Includes(s, sub) ==
    \E k \in 1..(Len(s) - Len(sub) + 1) : SubSeq(s, k, k + Len(sub) - 1) = sub

StartsWith(s, prefix) == SliceTo(s, Len(prefix)) = prefix

\* Index of the first whitespace character of s, 0 when there is none.
FirstSpace(s) ==
    LET K == {k \in 1..Len(s) : IsSpace(CharAt(s, k))}
    IN  IF K = {} THEN 0 ELSE CHOOSE k \in K : \A m \in K : k <= m

\* s.split(/\s+/)
RECURSIVE SplitWs(_)
SplitWs(s) ==
    LET k == FirstSpace(s)
    IN  IF k = 0
        THEN <<s>>
        ELSE <<SubSeq(s, 1, k - 1)>> \o SplitWs(TrimStart(Slice(s, k - 1)))

\* Array.prototype.find as an index: the least of the matching indices K, 0 when none.
FindIndex(K) ==
    IF K = {} THEN 0 ELSE CHOOSE k \in K : \A m \in K : k <= m

(***************************************************************************)
(* routeTask and matchSection (utils/router.ts)                            *)
(***************************************************************************)

\* const normalizedContent = taskContent.toLowerCase().trim()
NormalizedContent(content) == Trim(ToLowerCase(content))

\* const words = normalizedContent.split(/\s+/).filter((w) => w.length > 1)
Words(nc) == SelectSeq(SplitWs(nc), LAMBDA w : Len(w) > 1)

\* JavaScript truthiness of a string | null value.
Truthy(s) == s # Null /\ s # ""

\* SectionMatches without the test on the words.
SectionMatchesNameOnly(nc, words, section) ==
    Includes(nc, ToLowerCase(section.name))

\* The body of matchSection's loop: the two tests made on one section.
SectionMatches(nc, words, section) ==
    LET nameNorm == ToLowerCase(section.name)
    IN  \/ Includes(nc, nameNorm)
        \/ \E k \in 1..Len(words) : Len(words[k]) >= 2 /\ Includes(nameNorm, words[k])

MatchSection(nc, words, sections) ==
    LET k == FindIndex({j \in 1..Len(sections) : SectionMatches(nc, words, sections[j])})
    IN  IF k = 0 THEN Null ELSE sections[k].id

\* The optional parameter hint?: string.  An absent hint is undefined.
NoHint == [defined |-> FALSE, value |-> ""]
GivenHint(s) == [defined |-> TRUE, value |-> s]

\* if (hint && hint.trim())
HintUsable(h) == h.defined /\ h.value # "" /\ Trim(h.value) # ""

HintNorm(h) == ToLowerCase(Trim(h.value))

HintMatches(p, hintNorm) ==
    \/ Includes(ToLowerCase(p.name), hintNorm)
    \/ Includes(hintNorm, ToLowerCase(p.name))

\* Mutant of HintFind: the last matching project instead of the first.
HintFindLast(projs, h) ==
    LET K == {k \in 1..Len(projs) : HintMatches(projs[k], HintNorm(h))}
    IN  IF K = {} THEN 0 ELSE CHOOSE k \in K : \A m \in K : k >= m

\* projects.find(...) of the hint stage, as an index (0: undefined).
HintFind(projs, h) ==
    FindIndex({j \in 1..Len(projs) : HintMatches(projs[j], HintNorm(h))})

\* let best = { projectId: "", sectionId: null, score: 0 }
EmptyBest == [projectId |-> "", sectionId |-> Null, score |-> 0]

\* The inner loop over words: one point per word the project name includes.
NameScore(words, projectNameNorm) ==
    Cardinality({k \in 1..Len(words) : Includes(projectNameNorm, words[k])})

\* ScoreStep replacing the best on an equal total too.
ScoreStepNotStrict(nc, words, project, b) ==
    LET section == MatchSection(nc, words, project.sections)
        sectionBonus == IF Truthy(section) THEN 2 ELSE 0
        total == NameScore(words, ToLowerCase(project.name)) + sectionBonus
    IN  IF total >= b.score
        THEN [projectId |-> project.id, sectionId |-> section, score |-> total]
        ELSE b

\* One iteration of the loop over projects of the keyword stage.
ScoreStep(nc, words, project, b) ==
    LET section == MatchSection(nc, words, project.sections)
        sectionBonus == IF Truthy(section) THEN 2 ELSE 0
        total == NameScore(words, ToLowerCase(project.name)) + sectionBonus
    IN  IF total > b.score
        THEN [projectId |-> project.id, sectionId |-> section, score |-> total]
        ELSE b

\* for (const project of projects) { ... }, from project k on.
RECURSIVE ScoreFold(_, _, _, _, _)
ScoreFold(nc, words, projs, k, b) ==
    IF k > Len(projs)
    THEN b
    ELSE ScoreFold(nc, words, projs, k + 1, ScoreStep(nc, words, projs[k], b))

\* Mutant of patternProject: the finance rule looks for another name.
patternProjectNoFinance ==
    << [keywords |-> <<"review", "pr", "merge", "code", "dev", "engineering", "sprint">>,
        projectSubstr |-> "eng"],
       [keywords |-> <<"review", "pr", "merge", "code", "dev">>,
        projectSubstr |-> "dev"],
       [keywords |-> <<"invoice", "payment", "budget", "finance", "expense">>,
        projectSubstr |-> "accounting"],
       [keywords |-> <<"follow up", "follow-up", "contact", "crm", "client", "customer">>,
        projectSubstr |-> "crm"],
       [keywords |-> <<"follow up", "follow-up", "contact", "client">>,
        projectSubstr |-> "work"] >>

patternProject ==
    << [keywords |-> <<"review", "pr", "merge", "code", "dev", "engineering", "sprint">>,
        projectSubstr |-> "eng"],
       [keywords |-> <<"review", "pr", "merge", "code", "dev">>,
        projectSubstr |-> "dev"],
       [keywords |-> <<"invoice", "payment", "budget", "finance", "expense">>,
        projectSubstr |-> "finan"],
       [keywords |-> <<"follow up", "follow-up", "contact", "crm", "client", "customer">>,
        projectSubstr |-> "crm"],
       [keywords |-> <<"follow up", "follow-up", "contact", "client">>,
        projectSubstr |-> "work"] >>

\* keywords.some((k) => normalizedContent.includes(k))
ContentHas(nc, rule) ==
    \E k \in 1..Len(rule.keywords) : Includes(nc, rule.keywords[k])

\* projects.find((p) => p.name.toLowerCase().includes(projectSubstr)), as an index.
PatternFind(projs, rule) ==
    FindIndex({j \in 1..Len(projs) : Includes(ToLowerCase(projs[j].name), rule.projectSubstr)})

\* Mutant of PatternStep: a candidate of equal score replaces the best.
PatternStepNotStrict(nc, words, projs, rule, b) ==
    LET k == PatternFind(projs, rule)
        sectionId == MatchSection(nc, words, projs[k].sections)
        score == 2 + (IF Truthy(sectionId) THEN 1 ELSE 0)
    IN  IF ~ContentHas(nc, rule) \/ k = 0
        THEN b
        ELSE IF score >= b.score
             THEN [projectId |-> projs[k].id, sectionId |-> sectionId, score |-> score]
             ELSE b

\* PatternStep giving every candidate the score 2, section or not.
PatternStepFlatScore(nc, words, projs, rule, b) ==
    LET k == PatternFind(projs, rule)
        sectionId == MatchSection(nc, words, projs[k].sections)
        score == 2
    IN  IF ~ContentHas(nc, rule) \/ k = 0
        THEN b
        ELSE IF score > b.score
             THEN [projectId |-> projs[k].id, sectionId |-> sectionId, score |-> score]
             ELSE b

\* One iteration of the loop over patternProject.
PatternStep(nc, words, projs, rule, b) ==
    LET k == PatternFind(projs, rule)
        sectionId == MatchSection(nc, words, projs[k].sections)
        score == 2 + (IF Truthy(sectionId) THEN 1 ELSE 0)
    IN  IF ~ContentHas(nc, rule) \/ k = 0
        THEN b
        ELSE IF score > b.score
             THEN [projectId |-> projs[k].id, sectionId |-> sectionId, score |-> score]
             ELSE b

\* for (const { keywords, projectSubstr } of patternProject) { ... }, from rule k on.
RECURSIVE PatternFold(_, _, _, _, _)
PatternFold(nc, words, projs, k, b) ==
    IF k > Len(patternProject)
    THEN b
    ELSE PatternFold(nc, words, projs, k + 1,
                     PatternStep(nc, words, projs, patternProject[k], b))

IsInbox(p) == ToLowerCase(p.name) = "inbox" \/ Includes(ToLowerCase(p.name), "inbox")

\* Mutant of Fallback: the first project, whether or not an inbox exists.
FallbackFirstOnly(projs) ==
    IF Len(projs) > 0
    THEN [projectId |-> projs[1].id, sectionId |-> Null, via |-> "first"]
    ELSE [projectId |-> "", sectionId |-> Null, via |-> "none"]

\* Fallback without the return of the first project.
FallbackInboxOnly(projs) ==
    LET k == FindIndex({j \in 1..Len(projs) : IsInbox(projs[j])})
    IN  IF k # 0
        THEN [projectId |-> projs[k].id, sectionId |-> Null, via |-> "inbox"]
        ELSE [projectId |-> "", sectionId |-> Null, via |-> "none"]

\* The statements after "4. Fall back to Inbox".
Fallback(projs) ==
    LET k == FindIndex({j \in 1..Len(projs) : IsInbox(projs[j])})
    IN  IF k # 0
        THEN [projectId |-> projs[k].id, sectionId |-> Null, via |-> "inbox"]
        ELSE IF Len(projs) > 0
             THEN [projectId |-> projs[1].id, sectionId |-> Null, via |-> "first"]
             ELSE [projectId |-> "", sectionId |-> Null, via |-> "none"]

\* if (best.projectId) return ...; then the fallback.  "via" names the return
\* statement taken.
FinalReturn(projs, b) ==
    IF Truthy(b.projectId)
    THEN [projectId |-> b.projectId, sectionId |-> b.sectionId, via |-> "best"]
    ELSE Fallback(projs)

\* The return of the hint stage, for the project found at index k.
HintReturn(nc, words, projs, k) ==
    [projectId |-> projs[k].id,
     sectionId |-> MatchSection(nc, words, projs[k].sections),
     via |-> "hint"]

\* routeTask with the return statement it took.
RouteOutcome(content, projs, h) ==
    LET nc == NormalizedContent(content)
        words == Words(nc)
        byHint == IF HintUsable(h) THEN HintFind(projs, h) ELSE 0
    IN  IF byHint # 0
        THEN HintReturn(nc, words, projs, byHint)
        ELSE FinalReturn(projs,
                 PatternFold(nc, words, projs, 1,
                     ScoreFold(nc, words, projs, 1, EmptyBest)))

\* routeTask(taskContent, projects, hint): RouteResult
RouteTask(content, projs, h) ==
    LET r == RouteOutcome(content, projs, h)
    IN  [projectId |-> r.projectId, sectionId |-> r.sectionId]

(***************************************************************************)
(* parseDueDate (utils/dateParser.ts)                                      *)
(***************************************************************************)

\* new Date(): the reference instant of a call, Monday 2024-06-03, 10 o'clock.
\* Months count from 0 as in a JavaScript Date.
RefDate == [year |-> 2024, month |-> 5, day |-> 3, hour |-> 10]

Digits == "0123456789"

\* String(n).padStart(2, "0") for 0 <= n <= 99
PadTwo(n) == CharAt(Digits, (n \div 10) + 1) \o CharAt(Digits, (n % 10) + 1)

\* toDateString: YYYY-MM-DD of a Date, its time of day dropped.
ToDateString(d) ==
    PadTwo(d.year \div 100) \o PadTwo(d.year % 100) \o "-"
        \o PadTwo(d.month + 1) \o "-" \o PadTwo(d.day)

\* The position (from 1) of the first occurrence of sub in s, 0 when none.
IndexOf(s, sub) ==
    LET K == {k \in 1..(Len(s) - Len(sub) + 1) : SubSeq(s, k, k + Len(sub) - 1) = sub}
    IN  IF K = {} THEN 0 ELSE CHOOSE k \in K : \A m \in K : k <= m

\* The expressions the external parser recognises here, in lower case: two
\* relative ones and one absolute date written with dots.
ChronoPhrases == {"friday", "tomorrow", "12.25.2024"}

\* The instant the external parser gives for a recognised expression.
ChronoDate(phrase, ref) ==
    CASE phrase = "friday" ->
            [year |-> ref.year, month |-> ref.month, day |-> ref.day + 4, hour |-> 12]
      [] phrase = "tomorrow" ->
            [year |-> ref.year, month |-> ref.month, day |-> ref.day + 1, hour |-> 12]
      [] OTHER ->
            [year |-> 2024, month |-> 11, day |-> 25, hour |-> 12]

\* The recognised expressions of S in the order of their position in low.
RECURSIVE ChronoOrder(_, _)
ChronoOrder(S, low) ==
    IF S = {}
    THEN <<>>
    ELSE LET f == CHOOSE x \in S : \A y \in S : IndexOf(low, x) <= IndexOf(low, y)
         IN  <<f>> \o ChronoOrder(S \ {f}, low)

\* chrono.parse(trimmed, ref, { forwardDate: true }): the external parser.
\* It answers with the dates found, in the order of the text.
ChronoParse(trimmed, ref) ==
    LET low == ToLowerCase(trimmed)
        found == ChronoOrder({x \in ChronoPhrases : Includes(low, x)}, low)
    IN  [k \in 1..Len(found) |-> ChronoDate(found[k], ref)]

\* /eod|end of day|e\.o\.d/i.test(trimmed)
HasEndOfDay(trimmed) ==
    LET low == ToLowerCase(trimmed)
    IN  Includes(low, "eod") \/ Includes(low, "end of day") \/ Includes(low, "e.o.d")

\* parseDueDate(text) for a string argument, when new Date() is ref.
ParseDueDateAt(s, ref) ==
    LET trimmed == Trim(s)
        results == ChronoParse(trimmed, ref)
    IN  IF s = "" \/ trimmed = ""
        THEN Null
        ELSE IF Len(results) = 0
             THEN IF HasEndOfDay(trimmed) THEN ToDateString(ref) ELSE Null
             ELSE ToDateString(results[1])

\* parseDueDate(text): string | null, at the reference instant of the run.
ParseDueDate(s) == ParseDueDateAt(s, RefDate)

(***************************************************************************)
(* inferPriority and extractActionItems (utils/meetingNotes.ts)            *)
(***************************************************************************)

\* The alternatives of URGENT_PATTERN and of IMPORTANT_PATTERN.
URGENT_PATTERN ==
    <<"urgent", "asap", "as soon as possible", "blocker", "critical", "priority 1", "p1">>
IMPORTANT_PATTERN == <<"important", "soon", "priority 2", "p2">>

\* /\b(a|b|...)\b/i.test(line): an alternative occurs with a word boundary on
\* both sides (every alternative starts and ends with a word character).
WordPatternTest(alternatives, line) ==
    LET low == ToLowerCase(line)
    IN  \E a \in 1..Len(alternatives) :
            \E k \in 1..(Len(low) - Len(alternatives[a]) + 1) :
                LET e == k + Len(alternatives[a]) - 1
                IN  /\ SubSeq(low, k, e) = alternatives[a]
                    /\ (k = 1 \/ ~IsWordChar(CharAt(low, k - 1)))
                    /\ (e = Len(low) \/ ~IsWordChar(CharAt(low, e + 1)))

\* Mutant of InferPriority: the important pattern is tried first.
InferPriorityImportantFirst(line) ==
    IF WordPatternTest(IMPORTANT_PATTERN, line) THEN 2
    ELSE IF WordPatternTest(URGENT_PATTERN, line) THEN 1
    ELSE 4

InferPriority(line) ==
    IF WordPatternTest(URGENT_PATTERN, line) THEN 1
    ELSE IF WordPatternTest(IMPORTANT_PATTERN, line) THEN 2
    ELSE 4

\* Index of the first "\n" of s, 0 when there is none.
FirstNewline(s) ==
    LET K == {k \in 1..Len(s) : CharAt(s, k) = "\n"}
    IN  IF K = {} THEN 0 ELSE CHOOSE k \in K : \A m \in K : k <= m

\* text.split(/\r?\n/)
RECURSIVE SplitLines(_)
SplitLines(s) ==
    LET k == FirstNewline(s)
        e == IF k > 1 /\ CharAt(s, k - 1) = "\r" THEN k - 2 ELSE k - 1
    IN  IF k = 0
        THEN <<s>>
        ELSE <<SubSeq(s, 1, e)>> \o SplitLines(Slice(s, k))

\* text.split(/\r?\n/).map((l) => l.trim()).filter(Boolean)
TrimmedLines(s) ==
    LET raw == SplitLines(s)
    IN  SelectSeq([k \in 1..Len(raw) |-> Trim(raw[k])], LAMBDA l : l # "")

\* The character class [-*•], without the non-ASCII bullet.
IsBulletChar(c) == c \in {"-", "*"}

\* Length of the run of digits s starts with.
RECURSIVE DigitRun(_)
DigitRun(s) ==
    IF s # "" /\ IsDigit(CharAt(s, 1)) THEN 1 + DigitRun(Slice(s, 1)) ELSE 0

\* /^\d+[.)]/ matches s: the length of the match, 0 when it does not.
NumberMarkerLen(s) ==
    LET d == DigitRun(s)
    IN  IF d >= 1 /\ CharAt(s, d + 1) \in {".", ")"} THEN d + 1 ELSE 0

\* s.replace(/^[-*•]\s*/, "")
StripBullet(s) ==
    IF s # "" /\ IsBulletChar(CharAt(s, 1)) THEN TrimStart(Slice(s, 1)) ELSE s

\* s.replace(/^\d+[.)]\s*/, "")
StripNumber(s) ==
    IF NumberMarkerLen(s) > 0 THEN TrimStart(Slice(s, NumberMarkerLen(s))) ELSE s

\* const restOfLine = line.replace(/^[-*•]\s*/, "").replace(/^\d+[.)]\s*/, "")
RestOfLine(line) == StripNumber(StripBullet(line))

\* /^[-*•]\s+/.test(s) || /^\d+[.)]\s+/.test(s)
BulletTest(s) ==
    \/ s # "" /\ IsBulletChar(CharAt(s, 1)) /\ IsSpace(CharAt(s, 2))
    \/ NumberMarkerLen(s) > 0 /\ IsSpace(CharAt(s, NumberMarkerLen(s) + 1))

\* /^\[[\sx]\]/i matches s
BracketMarker(s) ==
    /\ CharAt(s, 1) = "["
    /\ IsSpace(CharAt(s, 2)) \/ CharAt(s, 2) \in {"x", "X"}
    /\ CharAt(s, 3) = "]"

\* /^\[[\sx]\]\s+/i.test(line)
BracketTest(line) == BracketMarker(line) /\ IsSpace(CharAt(line, 4))

\* s.replace(/^\[[\sx]\]\s*/i, "")
StripBracket(s) == IF BracketMarker(s) THEN TrimStart(Slice(s, 3)) ELSE s

ActionLabels ==
    <<"action", "todo", "follow-up", "follow up", "next step", "deliverable">>

\* /^(action|todo|follow-up|follow up|next step|deliverable):\s*/i.exec(s):
\* the length of actionPrefix[0], 0 when the result is null.
ActionPrefixLen(s) ==
    LET K == {a \in 1..Len(ActionLabels) :
                 ToLowerCase(SliceTo(s, Len(ActionLabels[a]) + 1)) = ActionLabels[a] \o ":"}
    IN  IF K = {}
        THEN 0
        ELSE LET a == CHOOSE x \in K : \A y \in K : x <= y
                 after == Slice(s, Len(ActionLabels[a]) + 1)
             IN  Len(s) - Len(TrimStart(after))

\* Mutant of IsAction: every line opens an item.
IsActionAlways(line) == TRUE

\* const isAction = ...
IsAction(line) ==
    \/ ActionPrefixLen(RestOfLine(line)) > 0
    \/ BulletTest(line)
    \/ BracketTest(line)
    \/ (line # "" /\ IsBulletChar(CharAt(line, 1)) /\ Len(line) > 3)

\* The content of an opening line, before the length test.
StrippedContent(line) ==
    LET rest == RestOfLine(line)
        n == ActionPrefixLen(rest)
        c == IF n > 0 THEN Trim(Slice(rest, n)) ELSE rest
    IN  Trim(StripBracket(c))

\* Mutant of ContentTooShort: only an empty content is discarded.
ContentTooShortEmptyOnly(content) == Len(content) < 1

\* if (content.length < 2)
ContentTooShort(content) == Len(content) < 2

\* /^#|\*\*/.test(s)
HeadingOrBold(s) == CharAt(s, 1) = "#" \/ Includes(s, "**")

MaxContentLen == 500
MaxDescriptionLen == 2000
MaxSubtasks == 20

\* The inner while loop, from line j on: the continuation lines collected.
RECURSIVE Collect(_, _, _, _)
Collect(ls, j, subtasks, description) ==
    IF j > Len(ls)
    THEN [next |-> j, subtasks |-> subtasks, description |-> description]
    ELSE LET next == ls[j]
             nextTrim == TrimStart(next)
             nextBullet == BulletTest(nextTrim)
             nextIndent == Len(next) - Len(nextTrim) > 0
         IN  IF nextBullet /\ nextIndent
             THEN Collect(ls, j + 1,
                          Append(subtasks, Trim(StripNumber(StripBullet(nextTrim)))),
                          description \o "\n" \o next)
             ELSE IF nextIndent /\ Len(nextTrim) > 0 /\ ~HeadingOrBold(nextTrim)
                  THEN Collect(ls, j + 1, Append(subtasks, nextTrim),
                               description \o "\n" \o next)
                  ELSE [next |-> j, subtasks |-> subtasks, description |-> description]

\* ScanOne with the two arguments of ?? exchanged: the line resolved first.
ScanOneLineFirst(ls, k) ==
    LET line == ls[k]
        content == StrippedContent(line)
        due == ParseDueDate(line)
        c == Collect(ls, k + 1, <<>>, line)
    IN  IF ~IsAction(line)
        THEN [emit |-> FALSE, next |-> k + 1]
        ELSE IF ContentTooShort(content)
             THEN [emit |-> FALSE, next |-> k + 1]
             ELSE [emit |-> TRUE,
                   next |-> c.next,
                   item |-> [content |-> SliceTo(content, MaxContentLen),
                             description |-> SliceTo(c.description, MaxDescriptionLen),
                             dueDate |-> IF due # Null THEN due ELSE ParseDueDate(content),
                             priority |-> InferPriority(line),
                             subtasks |-> SliceTo(c.subtasks, MaxSubtasks)]]

\* ScanOne without the three slices of the pushed item.
ScanOneUntruncated(ls, k) ==
    LET line == ls[k]
        content == StrippedContent(line)
        due == ParseDueDate(content)
        c == Collect(ls, k + 1, <<>>, line)
    IN  IF ~IsAction(line)
        THEN [emit |-> FALSE, next |-> k + 1]
        ELSE IF ContentTooShort(content)
             THEN [emit |-> FALSE, next |-> k + 1]
             ELSE [emit |-> TRUE,
                   next |-> c.next,
                   item |-> [content |-> content,
                             description |-> c.description,
                             dueDate |-> IF due # Null THEN due ELSE ParseDueDate(line),
                             priority |-> InferPriority(line),
                             subtasks |-> c.subtasks]]

\* ScanOne without the i++ of the branch that skips a content of fewer than
\* two characters.
ScanOneStalls(ls, k) ==
    LET line == ls[k]
        content == StrippedContent(line)
        due == ParseDueDate(content)
        c == Collect(ls, k + 1, <<>>, line)
    IN  IF ~IsAction(line)
        THEN [emit |-> FALSE, next |-> k + 1]
        ELSE IF ContentTooShort(content)
             THEN [emit |-> FALSE, next |-> k]
             ELSE [emit |-> TRUE,
                   next |-> c.next,
                   item |-> [content |-> SliceTo(content, MaxContentLen),
                             description |-> SliceTo(c.description, MaxDescriptionLen),
                             dueDate |-> IF due # Null THEN due ELSE ParseDueDate(line),
                             priority |-> InferPriority(line),
                             subtasks |-> SliceTo(c.subtasks, MaxSubtasks)]]

\* One iteration of the outer while loop at line k (lines count from 1 here):
\* whether an item is pushed, the item, and the next value of i.
ScanOne(ls, k) ==
    LET line == ls[k]
        content == StrippedContent(line)
        due == ParseDueDate(content)
        c == Collect(ls, k + 1, <<>>, line)
    IN  IF ~IsAction(line)
        THEN [emit |-> FALSE, next |-> k + 1]
        ELSE IF ContentTooShort(content)
             THEN [emit |-> FALSE, next |-> k + 1]
             ELSE [emit |-> TRUE,
                   next |-> c.next,
                   item |-> [content |-> SliceTo(content, MaxContentLen),
                             description |-> SliceTo(c.description, MaxDescriptionLen),
                             dueDate |-> IF due # Null THEN due ELSE ParseDueDate(line),
                             priority |-> InferPriority(line),
                             subtasks |-> SliceTo(c.subtasks, MaxSubtasks)]]

\* The outer while loop from line k on.
RECURSIVE ScanFrom(_, _, _)
ScanFrom(ls, k, acc) ==
    IF k > Len(ls)
    THEN acc
    ELSE LET r == ScanOne(ls, k)
         IN  ScanFrom(ls, r.next, IF r.emit THEN Append(acc, r.item) ELSE acc)

\* if (!text || typeof text !== "string") return []
NotText(t) == t.type # "string" \/ t.value = ""

\* extractActionItems(text): ExtractedActionItem[]
ExtractActionItems(t) ==
    IF NotText(t) THEN <<>> ELSE ScanFrom(TrimmedLines(t.value), 1, <<>>)

(***************************************************************************)
(* Inputs of routeTask: projects with their sections, as getProjects       *)
(* returns them (ids are the service's, never empty), contents and hints.  *)
(***************************************************************************)

MaxProjects == 3

Engineering ==
    [id |-> "p1", name |-> "Engineering",
     sections |-> << [id |-> "s1", name |-> "Code Review", projectId |-> "p1"],
                     [id |-> "s2", name |-> "Backlog", projectId |-> "p1"] >>]
Finance == [id |-> "p2", name |-> "Finance", sections |-> <<>>]
Inbox == [id |-> "p3", name |-> "Inbox", sections |-> <<>>]
Podcast ==
    [id |-> "p4", name |-> "Podcast",
     sections |-> << [id |-> "s4", name |-> "Voice", projectId |-> "p4"] >>]
Work == [id |-> "p5", name |-> "Work", sections |-> <<>>]

ProjectCatalog == {Engineering, Finance, Inbox, Podcast, Work}

\* Every sequence of at most MaxProjects distinct projects of the catalog.
ProjectLists ==
    {ps \in UNION {[1..n -> ProjectCatalog] : n \in 0..MaxProjects} :
        \A a, b \in 1..Len(ps) : a # b => ps[a] # ps[b]}

Contents ==
    {"Review PR #42", "pay the invoice", "approve the invoice",
     "work on the invoice", "call bob", "Follow up with client",
     "update engineering backlog", "finance finance budget", "finance at work", ""}

Hints ==
    {NoHint, GivenHint(""), GivenHint("  "), GivenHint("Engineering"),
     GivenHint("o"), GivenHint("Finance Team"), GivenHint("Marketing")}

(***************************************************************************)
(* routeTask as a state machine: one action per stage, one step per rule   *)
(* of the pattern table.                                                   *)
(***************************************************************************)

NoResult == [projectId |-> "", sectionId |-> Null]

RouteIdle ==
    /\ taskContent = ""
    /\ projects = <<>>
    /\ hint = NoHint
    /\ rpc = "idle"
    /\ best = EmptyBest
    /\ ruleIdx = 0
    /\ scored = EmptyBest
    /\ routeResult = NoResult
    /\ via = "pending"

ExtractIdle ==
    /\ text = [type |-> "undefined", value |-> ""]
    /\ lines = <<>>
    /\ i = 0
    /\ items = <<>>
    /\ opened = <<>>
    /\ xpc = "idle"

PmIdle ==
    /\ pmItems = <<>>
    /\ pmProjects = <<>>
    /\ pmHint = NoHint
    /\ pmPc = "idle"
    /\ pmIdx = 0
    /\ pmSub = 0
    /\ pmDest = NoResult
    /\ pmTaskId = Null
    /\ pmSummary = <<>>
    /\ pmCreated = 0
    /\ pmCalls = <<>>
    /\ pmOutcome = "pending"
    /\ pmResult = ""

DateIdle ==
    /\ dText = [type |-> "undefined", value |-> ""]
    /\ dRef = RefDate
    /\ dResults = <<>>
    /\ dpc = "idle"
    /\ dResult = Null

SectionIdle ==
    /\ mContent = ""
    /\ mSections = <<>>
    /\ mIdx = 0
    /\ mpc = "idle"
    /\ mResult = Null

\* cache.projects: null, or the list the last refreshCache stored.
NullCache == [isNull |-> TRUE, projects |-> <<>>]

Cached(list) == [isNull |-> FALSE, projects |-> list]

\* No operation of the client has been called yet.
NoOperation ==
    [op |-> "none", name |-> "", before |-> NullCache, first |-> <<>>, forced |-> 0,
     lookups |-> 0, api |-> <<>>, ok |-> TRUE, value |-> <<>>]

ClientIdle ==
    /\ cache = NullCache
    /\ cCall = NoOperation
    /\ cSince = "never"

NoCall == [returned |-> FALSE, value |-> <<>>]

CallIdle ==
    /\ xCalls = 0
    /\ xFirst = NoCall
    /\ rCalls = 0

RouteInit ==
    /\ taskContent \in Contents
    /\ projects \in ProjectLists
    /\ hint \in Hints
    /\ rpc = "hint"
    /\ best = EmptyBest
    /\ ruleIdx = 0
    /\ scored = EmptyBest
    /\ routeResult = NoResult
    /\ via = "pending"
    /\ ExtractIdle
    /\ PmIdle
    /\ DateIdle
    /\ SectionIdle
    /\ CallIdle
    /\ ClientIdle

\* Stage 1: the hint, which returns at once when a project matches it.
RouteHintStage ==
    /\ rpc = "hint"
    /\ LET nc == NormalizedContent(taskContent)
           byHint == IF HintUsable(hint) THEN HintFind(projects, hint) ELSE 0
       IN  IF byHint # 0
           THEN LET r == HintReturn(nc, Words(nc), projects, byHint)
                IN  /\ routeResult' = [projectId |-> r.projectId, sectionId |-> r.sectionId]
                    /\ via' = r.via
                    /\ rpc' = "done"
           ELSE /\ rpc' = "score"
                /\ UNCHANGED <<routeResult, via>>
    /\ UNCHANGED <<taskContent, projects, hint, best, ruleIdx, scored>>
    /\ UNCHANGED <<extractVars, pmVars, dateVars, sectionVars, callVars, clientVars>>

\* RouteScoreStage starting from the best of the call before, as a best kept
\* outside the function would make it.
RouteScoreStageKeepsBest ==
    /\ rpc = "score"
    /\ LET nc == NormalizedContent(taskContent)
           b == ScoreFold(nc, Words(nc), projects, 1, best)
       IN  /\ best' = b
           /\ scored' = b
    /\ ruleIdx' = 1
    /\ rpc' = "pattern"
    /\ UNCHANGED <<taskContent, projects, hint, routeResult, via>>
    /\ UNCHANGED <<extractVars, pmVars, dateVars, sectionVars, callVars, clientVars>>

\* Stage 2: the loop over projects.  scored keeps what this stage selected.
RouteScoreStage ==
    /\ rpc = "score"
    /\ LET nc == NormalizedContent(taskContent)
           b == ScoreFold(nc, Words(nc), projects, 1, EmptyBest)
       IN  /\ best' = b
           /\ scored' = b
    /\ ruleIdx' = 1
    /\ rpc' = "pattern"
    /\ UNCHANGED <<taskContent, projects, hint, routeResult, via>>
    /\ UNCHANGED <<extractVars, pmVars, dateVars, sectionVars, callVars, clientVars>>

\* Stage 3: one rule of the pattern table.
RoutePatternRule ==
    /\ rpc = "pattern"
    /\ ruleIdx <= Len(patternProject)
    /\ LET nc == NormalizedContent(taskContent)
       IN  best' = PatternStep(nc, Words(nc), projects, patternProject[ruleIdx], best)
    /\ ruleIdx' = ruleIdx + 1
    /\ UNCHANGED <<taskContent, projects, hint, rpc, scored, routeResult, via>>
    /\ UNCHANGED <<extractVars, pmVars, dateVars, sectionVars, callVars, clientVars>>

\* The return of the best project, or the fallback.
RouteReturn ==
    /\ rpc = "pattern"
    /\ ruleIdx > Len(patternProject)
    /\ LET r == FinalReturn(projects, best)
       IN  /\ routeResult' = [projectId |-> r.projectId, sectionId |-> r.sectionId]
           /\ via' = r.via
    /\ rpc' = "done"
    /\ UNCHANGED <<taskContent, projects, hint, best, ruleIdx, scored>>
    /\ UNCHANGED <<extractVars, pmVars, dateVars, sectionVars, callVars, clientVars>>

RouteNext ==
    \/ RouteHintStage
    \/ RouteScoreStage
    \/ RoutePatternRule
    \/ RouteReturn

SpecRoute == RouteInit /\ [][RouteNext]_vars

\* The staged machine computes routeTask.
RouteAgrees ==
    rpc = "done" =>
        /\ routeResult = RouteTask(taskContent, projects, hint)
        /\ via = RouteOutcome(taskContent, projects, hint).via

(***************************************************************************)
(* Inputs of extractActionItems: texts of at most MaxLines lines.          *)
(***************************************************************************)

MaxLines == 3

\* Raw lines, with their indentation and, for one, the "\r" of a "\r\n".
LineCatalog ==
    {"1. Review PR #42",
     "   - check tests",
     "   2) check docs",
     "- urgent: fix build asap\r",
     "TODO: important call Friday",
     "- x",
     "- [x] Action: p1 important EOD",
     "  more detail",
     "* soonish p10 fix",
     ""}

RECURSIVE JoinLines(_)
JoinLines(ls) ==
    IF Len(ls) = 1 THEN ls[1] ELSE ls[1] \o "\n" \o JoinLines(Tail(ls))

\* Every text of at most n distinct lines of the catalog.
TextsUpTo(n) ==
    {JoinLines(ls) :
        ls \in {q \in UNION {[1..m -> LineCatalog] : m \in 1..n} :
                   \A a, b \in 1..Len(q) : a # b => q[a] # q[b]}}

Texts == TextsUpTo(MaxLines)

\* Notes with a date written with dots after the bullet: the leading number
\* of the date is removed from the content as a list number would be.
DatedNotes ==
    "- 12.25.2024 ship\n- 12.25.2024 or Friday\nagenda\n- plain item"

\* n copies of s, one after the other.
RECURSIVE Repeated(_, _)
Repeated(s, n) ==
    IF n = 0
    THEN ""
    ELSE LET h == Repeated(s, n \div 2)
         IN  IF n % 2 = 1 THEN h \o h \o s ELSE h \o h

\* Notes whose first line is longer than the limit of a description, and so
\* than the limit of a content.
LongNotes == "- " \o Repeated("ab ", 700) \o "\n- short item"

\* Notes whose lines carry an explicit label after a bullet, a number or a
\* checkbox.
LabelledNotes ==
    "- TODO: call bob\n2) Follow up: send notes\n[ ] Next step: book room\n* Deliverable: report"

ExtraTexts == {DatedNotes, LongNotes, LabelledNotes}

\* The argument of extractActionItems: a string, or a value of another type.
TextInputs ==
    {[type |-> "string", value |-> t] : t \in Texts \cup ExtraTexts}
        \cup {[type |-> "undefined", value |-> ""], [type |-> "number", value |-> "42"]}

(***************************************************************************)
(* extractActionItems as a state machine: one step per iteration of the    *)
(* outer loop.  i counts lines from 1.  opened[k] is the index of the line *)
(* that opened items[k].                                                   *)
(***************************************************************************)

ExtractInit ==
    /\ text \in TextInputs
    /\ lines = <<>>
    /\ i = 0
    /\ items = <<>>
    /\ opened = <<>>
    /\ xpc = "start"
    /\ xCalls = 1
    /\ xFirst = NoCall
    /\ rCalls = 0
    /\ RouteIdle
    /\ PmIdle
    /\ DateIdle
    /\ SectionIdle
    /\ ClientIdle

\* ExtractStart with items kept from the call before, as an array that
\* outlives the call would be.
ExtractStartKeepsItems ==
    /\ xpc = "start"
    /\ IF NotText(text)
       THEN /\ xpc' = "done"
            /\ UNCHANGED <<lines, i>>
       ELSE /\ lines' = TrimmedLines(text.value)
            /\ i' = 1
            /\ xpc' = "scan"
    /\ UNCHANGED <<text, items, opened>>
    /\ UNCHANGED <<routeVars, pmVars, dateVars, sectionVars, callVars, clientVars>>

\* The guard (which returns a new empty array), the split into lines and the
\* new items array of the call.
ExtractStart ==
    /\ xpc = "start"
    /\ IF NotText(text)
       THEN /\ xpc' = "done"
            /\ UNCHANGED <<lines, i>>
       ELSE /\ lines' = TrimmedLines(text.value)
            /\ i' = 1
            /\ xpc' = "scan"
    /\ items' = <<>>
    /\ opened' = <<>>
    /\ UNCHANGED text
    /\ UNCHANGED <<routeVars, pmVars, dateVars, sectionVars, callVars, clientVars>>

\* One iteration of while (i < lines.length).
ExtractScan ==
    /\ xpc = "scan"
    /\ i <= Len(lines)
    /\ \E r \in {ScanOne(lines, i)} :
           /\ i' = r.next
           /\ items' = IF r.emit THEN Append(items, r.item) ELSE items
           /\ opened' = IF r.emit THEN Append(opened, i) ELSE opened
    /\ UNCHANGED <<text, lines, xpc>>
    /\ UNCHANGED <<routeVars, pmVars, dateVars, sectionVars, callVars, clientVars>>

\* return items
ExtractReturn ==
    /\ xpc = "scan"
    /\ i > Len(lines)
    /\ xpc' = "done"
    /\ UNCHANGED <<text, lines, i, items, opened>>
    /\ UNCHANGED <<routeVars, pmVars, dateVars, sectionVars, callVars, clientVars>>

ExtractNext ==
    \/ ExtractStart
    \/ ExtractScan
    \/ ExtractReturn

SpecExtract == ExtractInit /\ [][ExtractNext]_vars

\* ENABLED <<ExtractNext>>_vars written out: the guard and the split always
\* change xpc, the return does, and an iteration of the loop changes the
\* state when it leaves i changed (it pushes an item only when it does).
ExtractEnabled ==
    \/ xpc = "start"
    \/ xpc = "scan" /\ i > Len(lines)
    \/ xpc = "scan" /\ i <= Len(lines) /\ ScanOne(lines, i).next # i

\* extractActionItems is synchronous code: once called, it runs each
\* iteration of its loop and its return without waiting for anything.  This
\* is WF_vars(ExtractNext), with ExtractEnabled for its ENABLED.
SpecExtractFair ==
    /\ ExtractInit
    /\ [][ExtractNext]_vars
    /\ ([]<>(~ExtractEnabled) \/ []<><<ExtractNext>>_vars)

\* The state machine computes extractActionItems.
ExtractAgrees == xpc = "done" => items = ExtractActionItems(text)

(***************************************************************************)
(* parseMeetingNotes (tools/tasks.ts) over the TodoistClient: one action   *)
(* per remote call.  The service decides whether a call succeeds.          *)
(***************************************************************************)

MaxItems == 2

\* Values of type ExtractedActionItem, with and without subtasks.
ItemCatalog ==
    {[content |-> "Review PR #42", description |-> "1. Review PR #42",
      dueDate |-> Null, priority |-> 4, subtasks |-> <<"check tests", "check docs">>],
     [content |-> "pay the invoice", description |-> "- pay the invoice",
      dueDate |-> Null, priority |-> 4, subtasks |-> <<>>],
     [content |-> "call bob asap", description |-> "- call bob asap",
      dueDate |-> Null, priority |-> 1, subtasks |-> <<"find number">>]}

ItemSeqs ==
    {q \in UNION {[1..n -> ItemCatalog] : n \in 0..MaxItems} :
        \A a, b \in 1..Len(q) : a # b => q[a] # q[b]}

\* rawNotes arguments.
NoteInputs ==
    {[type |-> "string", value |-> "- work on the invoice\n- x\n- approve the invoice"],
     [type |-> "string", value |-> "1. Review PR #42\n   - check tests\nTODO: call bob"]}

\* What extractActionItems hands to the loop: its result on the notes above,
\* and item sequences of its return type.
ExtractorResults == {ExtractActionItems(n) : n \in NoteInputs} \cup ItemSeqs

\* What the project cache or the service answers to getProjects.
PmProjectLists ==
    {<<>>, <<Inbox, Finance>>, <<Engineering, Finance, Work>>}

\* The targetProjectName arguments.
PmHints == {NoHint, GivenHint("Finance"), GivenHint("Marketing"), GivenHint("  ")}

\* String(n) for 0 <= n <= 99
NumStr(n) ==
    IF n < 10 THEN CharAt(Digits, n + 1)
    ELSE CharAt(Digits, (n \div 10) + 1) \o CharAt(Digits, (n % 10) + 1)

\* The id the service gives to the n-th task of a run.
TaskId(n) == "t" \o NumStr(n)

\* err.message of a failed call.
ErrorMessage == "request failed"

\* `Created: "${task.content}" in project ${projectId}${sectionId ? ...}`
CreatedLine(content, dest) ==
    "Created: \"" \o content \o "\" in project " \o dest.projectId
        \o (IF Truthy(dest.sectionId) THEN ", section " \o dest.sectionId ELSE "")

\* `Failed to create "${item.content}": ${msg}`
FailedLine(content, msg) == "Failed to create \"" \o content \o "\": " \o msg

\* summary[summary.length - 1] += ` (${item.subtasks.length} subtasks)`
WithSubtaskCount(summary, n) ==
    [summary EXCEPT ![Len(summary)] = @ \o " (" \o NumStr(n) \o " subtasks)"]

RECURSIVE JoinWith(_, _)
JoinWith(ls, sep) ==
    IF Len(ls) = 0 THEN ""
    ELSE IF Len(ls) = 1 THEN ls[1]
    ELSE ls[1] \o sep \o JoinWith(Tail(ls), sep)

\* The text parseMeetingNotes returns.
ResultText(n, created, summary) ==
    JoinWith(<<"Parsed " \o NumStr(n) \o " action item(s); created "
                  \o NumStr(created) \o " task(s).">> \o summary, "\n")

\* Mutant of PmRouteOf: the target project name is not passed on.
PmRouteOfNoHint(item) == RouteTask(item.content, pmProjects, NoHint)

\* routeTask(item.content, projects, targetProjectName)
PmRouteOf(item) == RouteTask(item.content, pmProjects, pmHint)

PmInit ==
    /\ pmItems = <<>>
    /\ pmProjects \in PmProjectLists
    /\ pmHint \in PmHints
    /\ pmPc = "start"
    /\ pmIdx = 0
    /\ pmSub = 0
    /\ pmDest = NoResult
    /\ pmTaskId = Null
    /\ pmSummary = <<>>
    /\ pmCreated = 0
    /\ pmCalls = <<>>
    /\ pmOutcome = "pending"
    /\ pmResult = ""
    /\ RouteIdle
    /\ ExtractIdle
    /\ DateIdle
    /\ SectionIdle
    /\ CallIdle
    /\ ClientIdle

\* Lines 21 to 24: the one call of extractActionItems, counted in xCalls, and
\* getProjects answering.
PMStart ==
    /\ pmPc = "start"
    /\ \E its \in ExtractorResults : pmItems' = its
    /\ pmCalls' = Append(pmCalls, [op |-> "getProjects", ok |-> TRUE])
    /\ pmIdx' = 1
    /\ pmPc' = "route"
    /\ UNCHANGED <<pmProjects, pmHint, pmSub, pmDest, pmTaskId, pmSummary, pmCreated,
                   pmOutcome, pmResult>>
    /\ xCalls' = xCalls + 1
    /\ UNCHANGED <<routeVars, extractVars, dateVars, sectionVars, xFirst, rCalls, clientVars>>

\* Line 22 outside any try: a getProjects that rejects ends the call.
PMGetProjectsFails ==
    /\ pmPc = "start"
    /\ \E its \in ExtractorResults : pmItems' = its
    /\ pmCalls' = Append(pmCalls, [op |-> "getProjects", ok |-> FALSE])
    /\ pmOutcome' = "raised"
    /\ pmPc' = "done"
    /\ UNCHANGED <<pmProjects, pmHint, pmIdx, pmSub, pmDest, pmTaskId, pmSummary,
                   pmCreated, pmResult>>
    /\ xCalls' = xCalls + 1
    /\ UNCHANGED <<routeVars, extractVars, dateVars, sectionVars, xFirst, rCalls, clientVars>>

\* Lines 27 and 28: the item is routed; without a project it is skipped.
PMRoute ==
    /\ pmPc = "route"
    /\ pmIdx <= Len(pmItems)
    /\ LET dest == PmRouteOf(pmItems[pmIdx])
       IN  /\ pmCalls' = Append(pmCalls,
                 [op |-> "routeTask", item |-> pmIdx, projectId |-> dest.projectId])
           /\ pmDest' = dest
           /\ IF Truthy(dest.projectId)
              THEN pmPc' = "create" /\ pmIdx' = pmIdx
              ELSE pmPc' = "route" /\ pmIdx' = pmIdx + 1
    /\ UNCHANGED <<pmItems, pmProjects, pmHint, pmSub, pmTaskId, pmSummary, pmCreated,
                   pmOutcome, pmResult>>
    /\ UNCHANGED <<routeVars, extractVars, dateVars, sectionVars, callVars, clientVars>>

\* Mutant of PMCreateTask: no try around the call, a failure ends the run.
PMCreateTaskNoCatch ==
    /\ pmPc = "create"
    /\ \E ok \in BOOLEAN :
          /\ pmCalls' = Append(pmCalls,
                [op |-> "createTask", item |-> pmIdx, projectId |-> pmDest.projectId,
                 sectionId |-> pmDest.sectionId, content |-> pmItems[pmIdx].content,
                 ok |-> ok, taskId |-> IF ok THEN TaskId(pmCreated + 1) ELSE Null])
          /\ IF ok
             THEN /\ pmTaskId' = TaskId(pmCreated + 1)
                  /\ pmCreated' = pmCreated + 1
                  /\ pmSummary' = Append(pmSummary,
                                         CreatedLine(pmItems[pmIdx].content, pmDest))
                  /\ IF Len(pmItems[pmIdx].subtasks) > 0
                     THEN pmPc' = "subtask" /\ pmSub' = 1 /\ pmIdx' = pmIdx
                     ELSE pmPc' = "route" /\ pmSub' = 0 /\ pmIdx' = pmIdx + 1
                  /\ UNCHANGED pmOutcome
             ELSE /\ pmOutcome' = "raised"
                  /\ pmPc' = "done"
                  /\ UNCHANGED <<pmTaskId, pmCreated, pmSummary, pmSub, pmIdx>>
    /\ UNCHANGED <<pmItems, pmProjects, pmHint, pmDest, pmResult>>
    /\ UNCHANGED <<routeVars, extractVars, dateVars, sectionVars, callVars, clientVars>>

\* PMCreateTask going on to the subtasks of the item after a createTask that
\* rejected, as a try around createTask alone would.
PMCreateTaskSubtasksAnyway ==
    /\ pmPc = "create"
    /\ \E ok \in BOOLEAN :
          /\ pmCalls' = Append(pmCalls,
                [op |-> "createTask", item |-> pmIdx, projectId |-> pmDest.projectId,
                 sectionId |-> pmDest.sectionId, content |-> pmItems[pmIdx].content,
                 ok |-> ok, taskId |-> IF ok THEN TaskId(pmCreated + 1) ELSE Null])
          /\ IF ok
             THEN /\ pmTaskId' = TaskId(pmCreated + 1)
                  /\ pmCreated' = pmCreated + 1
                  /\ pmSummary' = Append(pmSummary,
                                         CreatedLine(pmItems[pmIdx].content, pmDest))
                  /\ IF Len(pmItems[pmIdx].subtasks) > 0
                     THEN pmPc' = "subtask" /\ pmSub' = 1 /\ pmIdx' = pmIdx
                     ELSE pmPc' = "route" /\ pmSub' = 0 /\ pmIdx' = pmIdx + 1
             ELSE /\ pmSummary' = Append(pmSummary,
                                         FailedLine(pmItems[pmIdx].content, ErrorMessage))
                  /\ IF Len(pmItems[pmIdx].subtasks) > 0
                     THEN pmPc' = "subtask" /\ pmSub' = 1 /\ pmIdx' = pmIdx
                     ELSE pmPc' = "route" /\ pmSub' = 0 /\ pmIdx' = pmIdx + 1
                  /\ UNCHANGED <<pmTaskId, pmCreated>>
    /\ UNCHANGED <<pmItems, pmProjects, pmHint, pmDest, pmOutcome, pmResult>>
    /\ UNCHANGED <<routeVars, extractVars, dateVars, sectionVars, callVars, clientVars>>

\* Lines 30 to 41, and the catch of lines 47 to 50 for a createTask that
\* rejects.
PMCreateTask ==
    /\ pmPc = "create"
    /\ \E ok \in BOOLEAN :
          /\ pmCalls' = Append(pmCalls,
                [op |-> "createTask", item |-> pmIdx, projectId |-> pmDest.projectId,
                 sectionId |-> pmDest.sectionId, content |-> pmItems[pmIdx].content,
                 ok |-> ok, taskId |-> IF ok THEN TaskId(pmCreated + 1) ELSE Null])
          /\ IF ok
             THEN /\ pmTaskId' = TaskId(pmCreated + 1)
                  /\ pmCreated' = pmCreated + 1
                  /\ pmSummary' = Append(pmSummary,
                                         CreatedLine(pmItems[pmIdx].content, pmDest))
                  /\ IF Len(pmItems[pmIdx].subtasks) > 0
                     THEN pmPc' = "subtask" /\ pmSub' = 1 /\ pmIdx' = pmIdx
                     ELSE pmPc' = "route" /\ pmSub' = 0 /\ pmIdx' = pmIdx + 1
             ELSE /\ pmSummary' = Append(pmSummary,
                                         FailedLine(pmItems[pmIdx].content, ErrorMessage))
                  /\ pmPc' = "route"
                  /\ pmIdx' = pmIdx + 1
                  /\ UNCHANGED <<pmTaskId, pmCreated, pmSub>>
    /\ UNCHANGED <<pmItems, pmProjects, pmHint, pmDest, pmOutcome, pmResult>>
    /\ UNCHANGED <<routeVars, extractVars, dateVars, sectionVars, callVars, clientVars>>

\* Lines 42 to 46, one createSubtask per step, and the catch of lines 47 to
\* 50 for a createSubtask that rejects.
PMCreateSubtask ==
    /\ pmPc = "subtask"
    /\ \E ok \in BOOLEAN :
          /\ pmCalls' = Append(pmCalls,
                [op |-> "createSubtask", item |-> pmIdx, sub |-> pmSub,
                 parentId |-> pmTaskId, content |-> pmItems[pmIdx].subtasks[pmSub],
                 ok |-> ok])
          /\ IF ok
             THEN IF pmSub < Len(pmItems[pmIdx].subtasks)
                  THEN /\ pmSub' = pmSub + 1
                       /\ UNCHANGED <<pmSummary, pmPc, pmIdx>>
                  ELSE /\ pmSummary' = WithSubtaskCount(pmSummary,
                                           Len(pmItems[pmIdx].subtasks))
                       /\ pmPc' = "route"
                       /\ pmIdx' = pmIdx + 1
                       /\ pmSub' = 0
             ELSE /\ pmSummary' = Append(pmSummary,
                                         FailedLine(pmItems[pmIdx].content, ErrorMessage))
                  /\ pmPc' = "route"
                  /\ pmIdx' = pmIdx + 1
                  /\ pmSub' = 0
    /\ UNCHANGED <<pmItems, pmProjects, pmHint, pmDest, pmTaskId, pmCreated, pmOutcome,
                   pmResult>>
    /\ UNCHANGED <<routeVars, extractVars, dateVars, sectionVars, callVars, clientVars>>

\* Lines 53 to 57: the summary is returned.
PMReturn ==
    /\ pmPc = "route"
    /\ pmIdx > Len(pmItems)
    /\ pmResult' = ResultText(Len(pmItems), pmCreated, pmSummary)
    /\ pmOutcome' = "returned"
    /\ pmPc' = "done"
    /\ UNCHANGED <<pmItems, pmProjects, pmHint, pmIdx, pmSub, pmDest, pmTaskId,
                   pmSummary, pmCreated, pmCalls>>
    /\ UNCHANGED <<routeVars, extractVars, dateVars, sectionVars, callVars, clientVars>>

Init == PmInit

Next ==
    \/ PMStart
    \/ PMGetProjectsFails
    \/ PMRoute
    \/ PMCreateTask
    \/ PMCreateSubtask
    \/ PMReturn

Spec == Init /\ [][Next]_vars

(***************************************************************************)
(* Claims about routeTask, checked under SpecRoute                         *)
(***************************************************************************)

MinOf(S) == CHOOSE k \in S : \A m \in S : k <= m

MaxOf(S) == CHOOSE k \in S : \A m \in S : k >= m

\* The content as the router reads it, and its tokens.
RNc == Trim(ToLowerCase(taskContent))
RTokens == SelectSeq(SplitWs(RNc), LAMBDA w : Len(w) > 1)

\* The rules of the pattern table a call applies: a keyword of the rule
\* occurs in the content and some bucket name contains the rule's target.
\* Each gives a candidate: the first such bucket, with score 2, or 3 when a
\* section of it matches.
AppliedRules ==
    {k \in 1..Len(patternProject) :
        /\ \E w \in 1..Len(patternProject[k].keywords) :
              Includes(RNc, patternProject[k].keywords[w])
        /\ \E p \in 1..Len(projects) :
              Includes(ToLowerCase(projects[p].name), patternProject[k].projectSubstr)}

CandidateBucket(k) ==
    projects[MinOf({p \in 1..Len(projects) :
        Includes(ToLowerCase(projects[p].name), patternProject[k].projectSubstr)})]

CandidateScore(k) ==
    IF MatchSection(RNc, RTokens, CandidateBucket(k).sections) # Null THEN 3 ELSE 2

TopCandidateScore ==
    IF AppliedRules = {} THEN 0 ELSE MaxOf({CandidateScore(k) : k \in AppliedRules})

\* C2 as stated: whenever the hint stage does not match and the scored keyword
\* stage selected a bucket, the returned bucket is the one that stage selected.
C2_ScoredStageAlwaysWins ==
    (rpc = "done" /\ via # "hint" /\ scored.score > 0)
        => routeResult.projectId = scored.projectId

\* C2 (amended): when the hint stage does not match and the scored keyword
\* stage selected a bucket, that bucket and its section are returned unless a
\* pattern rule's candidate scores strictly higher than the scored stage's
\* score; then the first highest-scoring candidate in table order is returned.
C2_ScoredWinsUnlessCandidateHigher ==
    (rpc = "done" /\ via # "hint" /\ scored.score > 0) =>
        IF TopCandidateScore <= scored.score
        THEN routeResult = [projectId |-> scored.projectId, sectionId |-> scored.sectionId]
        ELSE LET k == MinOf({r \in AppliedRules : CandidateScore(r) = TopCandidateScore})
             IN  routeResult.projectId = CandidateBucket(k).id

\* C2 witness: the scored stage selected a bucket, a pattern rule proposes
\* another bucket with the same score, and the scored bucket is returned.
C2_Witness ==
    /\ rpc = "done"
    /\ via = "best"
    /\ scored.score > 0
    /\ \E k \in AppliedRules :
          /\ CandidateBucket(k).id # scored.projectId
          /\ CandidateScore(k) = scored.score
    /\ routeResult.projectId = scored.projectId

\* The buckets a hint names: the bucket's name contains the hint or the hint
\* contains the bucket's name, both lowercased, the hint trimmed.
HintCandidates ==
    {k \in 1..Len(projects) :
        \/ Includes(ToLowerCase(projects[k].name), ToLowerCase(Trim(hint.value)))
        \/ Includes(ToLowerCase(Trim(hint.value)), ToLowerCase(projects[k].name))}

HintIsBlank == ~hint.defined \/ Trim(hint.value) = ""

\* C3: a non-blank hint that names at least one bucket returns the first such
\* bucket in the supplied order, with the section that section matching finds
\* in that bucket or null; a blank or absent hint never decides the result.
C3_HintReturnsFirstMatch ==
    rpc = "done" =>
        IF ~HintIsBlank /\ HintCandidates # {}
        THEN LET p == projects[MinOf(HintCandidates)]
             IN  /\ via = "hint"
                 /\ routeResult.projectId = p.id
                 /\ routeResult.sectionId = MatchSection(RNc, RTokens, p.sections)
                 /\ routeResult.sectionId \in
                        {p.sections[k].id : k \in 1..Len(p.sections)} \cup {Null}
        ELSE via # "hint"

\* C3 witness: the hint names two buckets or more and the first is returned,
\* although another bucket would have been selected without the hint.
C3_Witness ==
    /\ rpc = "done"
    /\ via = "hint"
    /\ Cardinality(HintCandidates) >= 2
    /\ routeResult.projectId = projects[MinOf(HintCandidates)].id
    /\ RouteTask(taskContent, projects, NoHint).projectId # routeResult.projectId

InboxBuckets ==
    {k \in 1..Len(projects) : Includes(ToLowerCase(projects[k].name), "inbox")}

\* C6: when no stage selected a bucket, the result is the first bucket whose
\* name contains "inbox", else the first bucket, else the empty id; the
\* section is null; an empty bucket sequence always gives the empty id.
C6_FallbackOrder ==
    /\ (rpc = "done" /\ via # "hint" /\ best.projectId = "") =>
          IF InboxBuckets # {}
          THEN routeResult = [projectId |-> projects[MinOf(InboxBuckets)].id,
                              sectionId |-> Null]
          ELSE IF Len(projects) > 0
               THEN routeResult = [projectId |-> projects[1].id, sectionId |-> Null]
               ELSE routeResult = [projectId |-> "", sectionId |-> Null]
    /\ (rpc = "done" /\ projects = <<>>) =>
          routeResult = [projectId |-> "", sectionId |-> Null]

\* C6 witness: the fallback returned an inbox bucket that is not the first bucket.
C6_Witness ==
    /\ rpc = "done"
    /\ via = "inbox"
    /\ MinOf(InboxBuckets) > 1
    /\ routeResult.projectId = projects[MinOf(InboxBuckets)].id

FinanceKeywords == {"invoice", "payment", "budget", "finance", "expense"}

\* The preconditions C7 states.
C7_Pre ==
    /\ hint = NoHint
    /\ \E w \in FinanceKeywords : Includes(RNc, w)
    /\ \A t \in 1..Len(RTokens) : \A p \in 1..Len(projects) :
          /\ ~Includes(ToLowerCase(projects[p].name), RTokens[t])
          /\ \A c \in 1..Len(projects[p].sections) :
                ~Includes(ToLowerCase(projects[p].sections[c].name), RTokens[t])
    /\ \E p \in 1..Len(projects) : Includes(ToLowerCase(projects[p].name), "financ")

\* C7 as stated: under these preconditions the bucket whose name contains
\* "financ" is returned, through the pattern stage.
C7_FinanceAlwaysSelected ==
    (rpc = "done" /\ C7_Pre) =>
        /\ via = "best"
        /\ routeResult.projectId =
              projects[MinOf({p \in 1..Len(projects) :
                  Includes(ToLowerCase(projects[p].name), "financ")})].id

\* C7 (amended): if moreover no section name occurs in the content and no
\* earlier rule of the table (the "eng" and "dev" rules) applies, the first
\* bucket whose name contains "finan" is returned, with no section.
C7_FinanceSelected ==
    (/\ rpc = "done"
     /\ C7_Pre
     /\ \A p \in 1..Len(projects) : \A c \in 1..Len(projects[p].sections) :
           ~Includes(RNc, ToLowerCase(projects[p].sections[c].name))
     /\ AppliedRules \cap {1, 2} = {}) =>
        /\ via = "best"
        /\ scored = EmptyBest
        /\ routeResult =
              [projectId |-> projects[MinOf({p \in 1..Len(projects) :
                                Includes(ToLowerCase(projects[p].name), "finan")})].id,
               sectionId |-> Null]

\* C7 witness: a finance content is routed to Finance although an inbox
\* bucket comes first.
C7_Witness ==
    /\ rpc = "done"
    /\ C7_Pre
    /\ AppliedRules \cap {1, 2} = {}
    /\ Len(projects) >= 2
    /\ IsInbox(projects[1])
    /\ via = "best"
    /\ routeResult.projectId = "p2"

(***************************************************************************)
(* Claims about extractActionItems, checked under SpecExtract              *)
(***************************************************************************)

\* The lines of the input as written, before any trimming.
RawLines == SplitLines(text.value)

\* A line with leading whitespace that is a bullet or numbered item.
IsIndentedSubItem(raw) ==
    /\ IsSpace(CharAt(raw, 1))
    /\ LET t == TrimStart(raw)
       IN  \/ CharAt(t, 1) \in {"-", "*"} /\ IsSpace(CharAt(t, 2))
           \/ NumberMarkerLen(t) > 0 /\ IsSpace(CharAt(t, NumberMarkerLen(t) + 1))

\* The text of a sub-item line: its marker and surrounding space removed.
SubItemText(raw) == Trim(StripNumber(StripBullet(TrimStart(raw))))

\* One opening line followed by k >= 1 indented bullet or numbered lines.
C1_Shape ==
    /\ text.type = "string"
    /\ Len(RawLines) >= 2
    /\ ~IsSpace(CharAt(RawLines[1], 1))
    /\ IsAction(Trim(RawLines[1]))
    /\ Len(StrippedContent(Trim(RawLines[1]))) >= 2
    /\ \A j \in 2..Len(RawLines) : IsIndentedSubItem(RawLines[j])

\* C1: an opening line followed by k >= 1 indented bullet or numbered lines
\* gives exactly one item, whose subtasks are the k stripped texts in order.
C1_SubtasksCollected ==
    (xpc = "done" /\ C1_Shape) =>
        /\ Len(items) = 1
        /\ items[1].subtasks =
              [j \in 1..(Len(RawLines) - 1) |-> SubItemText(RawLines[j + 1])]

\* A line that starts like an action marker: a bullet, a digit, a bracket, or
\* one of the labels.
MarkerLike(raw) ==
    LET t == ToLowerCase(Trim(raw))
    IN  \/ CharAt(t, 1) \in {"-", "*", "["}
        \/ IsDigit(CharAt(t, 1))
        \/ \E l \in {"action:", "todo:", "follow-up:", "follow up:", "next step:",
                     "deliverable:"} : SliceTo(t, Len(l)) = l

\* C8: an input that is not a string, is empty, or has no line opening with
\* an action marker gives the empty sequence.
C8_EmptyResult ==
    (/\ xpc = "done"
     /\ \/ text.type # "string"
        \/ text.value = ""
        \/ \A k \in 1..Len(RawLines) : ~MarkerLike(RawLines[k])) =>
        items = <<>>

\* C8 witness: a text with a non-blank line and no marker returned nothing.
C8_Witness ==
    /\ xpc = "done"
    /\ text.type = "string"
    /\ Len(lines) >= 1
    /\ \A k \in 1..Len(RawLines) : ~MarkerLike(RawLines[k])
    /\ items = <<>>

\* Every emitted content has two characters or more and is not blank.
C9_ContentInvariant ==
    \A k \in 1..Len(items) :
        /\ Len(items[k].content) >= 2
        /\ Trim(items[k].content) # ""

\* A qualifying line whose stripped content is shorter than two characters
\* emits nothing, and the scan goes on at the next line.
C9_ShortLineSkipped ==
    (/\ xpc = "scan"
     /\ i <= Len(lines)
     /\ IsAction(lines[i])
     /\ Len(StrippedContent(lines[i])) < 2) =>
        /\ items' = items
        /\ i' = i + 1

\* C9: every emitted item has a content of at least 2 characters, not blank;
\* a qualifying line with a shorter content emits nothing and the scan
\* continues at the next line.
C9_MinimumContent == [](C9_ContentInvariant) /\ [][C9_ShortLineSkipped]_vars

\* C9 witness: a qualifying line was discarded for its short content and a
\* later line opened an item.
C9_Witness ==
    /\ xpc = "done"
    /\ \E k \in 1..Len(lines) :
          /\ IsAction(lines[k])
          /\ Len(StrippedContent(lines[k])) < 2
          /\ \E m \in 1..Len(opened) : opened[m] > k

UrgencyWords ==
    {"urgent", "asap", "as soon as possible", "blocker", "critical", "priority 1", "p1"}
ElevatedWords == {"important", "soon", "priority 2", "p2"}

\* The lowercased line low contains w as a word: not inside a longer run of
\* word characters.
ContainsWord(low, w) ==
    \E k \in 1..(Len(low) - Len(w) + 1) :
        /\ SubSeq(low, k, k + Len(w) - 1) = w
        /\ ~IsWordChar(CharAt(low, k - 1))
        /\ ~IsWordChar(CharAt(low, k + Len(w)))

Classification(line) ==
    LET low == ToLowerCase(line)
    IN  IF \E w \in UrgencyWords : ContainsWord(low, w) THEN 1
        ELSE IF \E w \in ElevatedWords : ContainsWord(low, w) THEN 2
        ELSE 4

\* C10: the priority of every emitted item is the classification of its
\* opening line: 1 with an urgency word, else 2 with an elevated word, else
\* 4; never 3.
C10_PriorityOfOpeningLine ==
    \A k \in 1..Len(items) :
        /\ items[k].priority = Classification(lines[opened[k]])
        /\ items[k].priority \in {1, 2, 4}

\* C10 witness: an item whose opening line has both kinds of word got 1.
C10_Witness ==
    \E k \in 1..Len(items) :
        /\ \E w \in UrgencyWords : ContainsWord(ToLowerCase(lines[opened[k]]), w)
        /\ \E w \in ElevatedWords : ContainsWord(ToLowerCase(lines[opened[k]]), w)
        /\ items[k].priority = 1

(***************************************************************************)
(* Claims about parseMeetingNotes, checked under Spec                      *)
(***************************************************************************)

\* The calls of the run made with operation op for item k.
CallsFor(op, k) ==
    {c \in 1..Len(pmCalls) : pmCalls[c].op = op /\ pmCalls[c].item = k}

CreateTaskCalls == {c \in 1..Len(pmCalls) : pmCalls[c].op = "createTask"}

GetProjectsAnswered == Len(pmCalls) >= 1 /\ pmCalls[1].ok

\* C4: once getProjects has answered, whatever createTask and createSubtask
\* calls fail, createTask is attempted exactly once for each item that has a
\* destination (and never for the others) and the call returns its summary.
C4_EveryItemAttempted ==
    (pmPc = "done" /\ GetProjectsAnswered) =>
        /\ pmOutcome = "returned"
        /\ \A k \in 1..Len(pmItems) :
              Cardinality(CallsFor("createTask", k)) =
                  IF RouteTask(pmItems[k].content, pmProjects, pmHint).projectId # ""
                  THEN 1 ELSE 0

\* C4 witness: a createTask failed, a createSubtask of another item failed,
\* and an item after both was still attempted; the call returned.
C4_Witness ==
    /\ pmPc = "done"
    /\ pmOutcome = "returned"
    /\ \E a, b \in 1..Len(pmCalls) :
          /\ a < b
          /\ pmCalls[a].op \in {"createTask", "createSubtask"}
          /\ ~pmCalls[a].ok
          /\ pmCalls[b].op = "createTask"

\* The projects the target name names: containment either way, lowercased.
NamedProjects ==
    {k \in 1..Len(pmProjects) :
        \/ Includes(ToLowerCase(pmProjects[k].name), ToLowerCase(Trim(pmHint.value)))
        \/ Includes(ToLowerCase(Trim(pmHint.value)), ToLowerCase(pmProjects[k].name))}

\* C5 as stated: with a target_project_name, every createTask call carries
\* the id of the project matching the name.
C5_AllTasksToNamedProject ==
    pmHint.defined =>
        \A c \in CreateTaskCalls :
            /\ NamedProjects # {}
            /\ pmCalls[c].projectId = pmProjects[MinOf(NamedProjects)].id

\* C5 (amended): with a non-blank target_project_name that names at least one
\* project, every createTask call carries the id of the first such project.
C5_AllTasksToMatchedProject ==
    (pmHint.defined /\ Trim(pmHint.value) # "" /\ NamedProjects # {}) =>
        \A c \in CreateTaskCalls :
            pmCalls[c].projectId = pmProjects[MinOf(NamedProjects)].id

\* C5 witness: two items that their contents alone route to different
\* projects were both created in the named project.
C5_Witness ==
    /\ pmHint.defined
    /\ NamedProjects # {}
    /\ \E a, b \in CreateTaskCalls :
          /\ RouteTask(pmCalls[a].content, pmProjects, NoHint).projectId
                # RouteTask(pmCalls[b].content, pmProjects, NoHint).projectId
          /\ pmCalls[a].projectId = pmCalls[b].projectId
          /\ pmCalls[a].projectId = pmProjects[MinOf(NamedProjects)].id

(***************************************************************************)
(* C11: the due date of an item                                            *)
(***************************************************************************)

\* What C11 says the due date of the item opened by line l is.
C11_Expected(l) ==
    LET fromContent == ParseDueDate(StrippedContent(l))
        fromLine == ParseDueDate(l)
    IN  IF fromContent # Null THEN fromContent
        ELSE IF fromLine # Null THEN fromLine
        ELSE Null

\* A calendar date as YYYY-MM-DD.
IsDateString(d) ==
    /\ Len(d) = 10
    /\ \A k \in {1, 2, 3, 4, 6, 7, 9, 10} : IsDigit(CharAt(d, k))
    /\ CharAt(d, 5) = "-" /\ CharAt(d, 8) = "-"

\* C11: the dueDate of every emitted item is the resolver's result on the
\* stripped content when that is a date, otherwise the resolver's result on
\* the whole opening line, and null when neither is a date.
C11_DueDate ==
    \A k \in 1..Len(items) :
        /\ items[k].dueDate = C11_Expected(lines[opened[k]])
        /\ items[k].dueDate = Null \/ IsDateString(items[k].dueDate)

\* C11 witness: a finished run with an item dated by its content although the
\* line starts with another date, an item dated by its line only, and an
\* item without a date.
C11_Witness ==
    /\ xpc = "done"
    /\ \E k \in 1..Len(items) :
          /\ ParseDueDate(StrippedContent(lines[opened[k]])) # Null
          /\ ParseDueDate(StrippedContent(lines[opened[k]])) # ParseDueDate(lines[opened[k]])
          /\ items[k].dueDate = ParseDueDate(StrippedContent(lines[opened[k]]))
    /\ \E k \in 1..Len(items) :
          /\ ParseDueDate(StrippedContent(lines[opened[k]])) = Null
          /\ items[k].dueDate # Null
    /\ \E k \in 1..Len(items) : items[k].dueDate = Null

(***************************************************************************)
(* parseDueDate as a state machine (utils/dateParser.ts): the guards and   *)
(* the call of the external parser, then the return.                       *)
(***************************************************************************)

MaxWords == 3

\* Words of the texts given to parseDueDate.
DateWords ==
    {"by", "Friday", "tomorrow", "EOD", "End of Day", "e.o.d", "E.O.D.", "deodorant", "call"}

\* Every text of at most MaxWords words, and two texts without any word.
DateTexts ==
    {JoinWith(ws, " ") : ws \in UNION {[1..n -> DateWords] : n \in 1..MaxWords}}
        \cup {"", "  "}

DateInputs ==
    {[type |-> "string", value |-> t] : t \in DateTexts}
        \cup {[type |-> "undefined", value |-> ""]}

\* Values of new Date(): a morning, the last hour of a day in January, the
\* first hour of a day in December.
DateRefs ==
    {RefDate,
     [year |-> 2024, month |-> 0, day |-> 9, hour |-> 23],
     [year |-> 2025, month |-> 11, day |-> 20, hour |-> 0]}

DateInit ==
    /\ dText \in DateInputs
    /\ dRef \in DateRefs
    /\ dResults = <<>>
    /\ dpc = "start"
    /\ dResult = Null
    /\ RouteIdle
    /\ ExtractIdle
    /\ PmIdle
    /\ CallIdle
    /\ SectionIdle
    /\ ClientIdle

\* The two guards, new Date() and chrono.parse.
DateParse ==
    /\ dpc = "start"
    /\ IF dText.type # "string" \/ dText.value = "" \/ Trim(dText.value) = ""
       THEN /\ dResult' = Null
            /\ dpc' = "done"
            /\ UNCHANGED dResults
       ELSE /\ dResults' = ChronoParse(Trim(dText.value), dRef)
            /\ dpc' = "parsed"
            /\ UNCHANGED dResult
    /\ UNCHANGED <<dText, dRef>>
    /\ UNCHANGED <<routeVars, extractVars, pmVars, callVars, sectionVars, clientVars>>

\* if (results.length === 0): today for an end-of-day text, else null.
DateNoMatch ==
    /\ dpc = "parsed"
    /\ Len(dResults) = 0
    /\ dResult' = IF HasEndOfDay(Trim(dText.value)) THEN ToDateString(dRef) ELSE Null
    /\ dpc' = "done"
    /\ UNCHANGED <<dText, dRef, dResults>>
    /\ UNCHANGED <<routeVars, extractVars, pmVars, callVars, sectionVars, clientVars>>

\* DateFirstMatch letting an end-of-day text override the match.
DateFirstMatchEodWins ==
    /\ dpc = "parsed"
    /\ Len(dResults) > 0
    /\ dResult' = IF HasEndOfDay(Trim(dText.value))
                  THEN ToDateString(dRef)
                  ELSE ToDateString(dResults[1])
    /\ dpc' = "done"
    /\ UNCHANGED <<dText, dRef, dResults>>
    /\ UNCHANGED <<routeVars, extractVars, pmVars, callVars, sectionVars, clientVars>>

\* return toDateString(results[0].date())
DateFirstMatch ==
    /\ dpc = "parsed"
    /\ Len(dResults) > 0
    /\ dResult' = ToDateString(dResults[1])
    /\ dpc' = "done"
    /\ UNCHANGED <<dText, dRef, dResults>>
    /\ UNCHANGED <<routeVars, extractVars, pmVars, callVars, sectionVars, clientVars>>

DateNext ==
    \/ DateParse
    \/ DateNoMatch
    \/ DateFirstMatch

SpecDate == DateInit /\ [][DateNext]_vars

\* The state machine computes parseDueDate.
DateAgrees ==
    (dpc = "done" /\ dText.type = "string") => dResult = ParseDueDateAt(dText.value, dRef)

(***************************************************************************)
(* C12: the end-of-day rule and the first match                            *)
(***************************************************************************)

C12_TwoDigits(n) ==
    IF n < 10
    THEN "0" \o CharAt(Digits, n + 1)
    ELSE CharAt(Digits, (n \div 10) + 1) \o CharAt(Digits, (n % 10) + 1)

\* The calendar date of an instant, YYYY-MM-DD, months counted from 0 in d.
C12_Calendar(d) ==
    C12_TwoDigits(d.year \div 100) \o C12_TwoDigits(d.year % 100) \o "-"
        \o C12_TwoDigits(d.month + 1) \o "-" \o C12_TwoDigits(d.day)

\* The end-of-day markers as C12 writes them, and as the code tests them.
C12_MarkersAsStated == {"eod", "end of day", "e.o.d."}
C12_MarkersOfCode == {"eod", "end of day", "e.o.d"}

C12_TextHas(markers) ==
    \E m \in markers : Includes(ToLowerCase(dText.value), m)

C12_Rule(markers) ==
    (dpc = "done" /\ dText.type = "string") =>
        IF Len(dResults) = 0
        THEN dResult = IF C12_TextHas(markers) THEN C12_Calendar(dRef) ELSE Null
        ELSE dResult = C12_Calendar(dResults[1])

\* C12 as stated: with no match of the external parser the result is the
\* calendar date of the reference instant when the text contains eod, end of
\* day or e.o.d. (with its final period), and null otherwise; with a match
\* the result is the calendar date of the first match.
C12_EndOfDayAsStated == C12_Rule(C12_MarkersAsStated)

\* C12 (amended): the same with the third marker being e.o.d, the final
\* period not required.
C12_EndOfDay == C12_Rule(C12_MarkersOfCode)

\* C12 witness: a text with an end-of-day marker and two matches of the
\* external parser has returned the date of the first match, which is not
\* the date of the reference instant.
C12_Witness ==
    /\ dpc = "done"
    /\ Len(dResults) = 2
    /\ C12_TextHas(C12_MarkersOfCode)
    /\ dResult = C12_Calendar(dResults[1])
    /\ dResult # C12_Calendar(dResults[2])
    /\ dResult # C12_Calendar(dRef)

(***************************************************************************)
(* extractActionItems called again by its caller with the same argument    *)
(***************************************************************************)

MaxCalls == 2
MaxRepeatLines == 2

RepeatInputs ==
    {[type |-> "string", value |-> t] : t \in TextsUpTo(MaxRepeatLines) \cup ExtraTexts}
        \cup {[type |-> "undefined", value |-> ""]}

RepeatInit ==
    /\ text \in RepeatInputs
    /\ lines = <<>>
    /\ i = 0
    /\ items = <<>>
    /\ opened = <<>>
    /\ xpc = "start"
    /\ xCalls = 1
    /\ xFirst = NoCall
    /\ rCalls = 0
    /\ RouteIdle
    /\ PmIdle
    /\ DateIdle
    /\ SectionIdle
    /\ ClientIdle

\* The caller keeps the returned array and calls again with the same text.
\* What the finished call left in its local variables is not visible to the
\* new call, which declares its own (ExtractStart).
ExtractAgain ==
    /\ xpc = "done"
    /\ xCalls < MaxCalls
    /\ xFirst' = [returned |-> TRUE, value |-> items]
    /\ xCalls' = xCalls + 1
    /\ xpc' = "start"
    /\ UNCHANGED <<text, lines, i, items, opened, rCalls>>
    /\ UNCHANGED <<routeVars, pmVars, dateVars, sectionVars, clientVars>>

RepeatNext ==
    \/ ExtractStart
    \/ ExtractScan
    \/ ExtractReturn
    \/ ExtractAgain

SpecRepeat == RepeatInit /\ [][RepeatNext]_vars

(***************************************************************************)
(* C13: idempotence of the extractor                                       *)
(***************************************************************************)

C13_SameOutput == (xpc = "done" /\ xFirst.returned) => items = xFirst.value

C13_InputKept == text' = text

\* C13: a call of extractActionItems on the text of the call before returns
\* what the call before returned, and no step of a call changes the text.
C13_Idempotent == [](C13_SameOutput) /\ [][C13_InputKept]_vars

\* C13 witness: a second call on a text with several items, one of them
\* dated, has returned.
C13_Witness ==
    /\ xpc = "done"
    /\ xCalls = 2
    /\ xFirst.returned
    /\ Len(items) >= 2
    /\ \E k \in 1..Len(items) : items[k].dueDate # Null
    /\ \E k \in 1..Len(items) : items[k].priority # 4

(***************************************************************************)
(* routeTask called again by its caller: parseMeetingNotes calls it once   *)
(* per item with the same projects and the same hint.                      *)
(***************************************************************************)

MaxRouteCalls == 2

RouteRepeatInit ==
    /\ taskContent \in Contents
    /\ projects \in PmProjectLists
    /\ hint \in PmHints
    /\ rpc = "hint"
    /\ best = EmptyBest
    /\ ruleIdx = 0
    /\ scored = EmptyBest
    /\ routeResult = NoResult
    /\ via = "pending"
    /\ rCalls = 1
    /\ xCalls = 0
    /\ xFirst = NoCall
    /\ ExtractIdle
    /\ PmIdle
    /\ DateIdle
    /\ SectionIdle
    /\ ClientIdle

\* The next call, for another content.  What the finished call left in its
\* local variables stays where it is: the new call initialises what it reads.
RouteAgain ==
    /\ rpc = "done"
    /\ rCalls < MaxRouteCalls
    /\ taskContent' \in Contents
    /\ rCalls' = rCalls + 1
    /\ rpc' = "hint"
    /\ UNCHANGED <<projects, hint, best, ruleIdx, scored, routeResult, via>>
    /\ UNCHANGED <<extractVars, pmVars, dateVars, sectionVars, xCalls, xFirst, clientVars>>

RouteRepeatNext ==
    \/ RouteHintStage
    \/ RouteScoreStage
    \/ RoutePatternRule
    \/ RouteReturn
    \/ RouteAgain

SpecRouteRepeat == RouteRepeatInit /\ [][RouteRepeatNext]_vars

(***************************************************************************)
(* C14: routeTask leaves its buckets alone and keeps nothing between calls *)
(***************************************************************************)

C14_BucketsKept == projects' = projects

C14_ResultOfArguments ==
    rpc = "done" => routeResult = RouteTask(taskContent, projects, hint)

\* C14: no step of routeTask changes the sequence of buckets or their
\* sections, and what a call returns is a function of its own arguments,
\* whatever the calls before it were.
C14_NoMutationNoCache == [][C14_BucketsKept]_vars /\ [](C14_ResultOfArguments)

\* C14 witness: a second call on the same buckets has returned a bucket and
\* one of its sections.
C14_Witness ==
    /\ rpc = "done"
    /\ rCalls = 2
    /\ routeResult.projectId # ""
    /\ routeResult.sectionId # Null
    /\ \E p \in 1..Len(projects) : Len(projects[p].sections) > 0

(***************************************************************************)
(* C15: the limits of an emitted item                                      *)
(***************************************************************************)

\* x is the first n elements of full, or all of full when it has fewer.
C15_PrefixOf(x, full, n) ==
    /\ Len(x) = (IF Len(full) < n THEN Len(full) ELSE n)
    /\ x = SubSeq(full, 1, Len(x))

\* The description and the subtasks collected for the item opened at line k,
\* before the limits are applied.
C15_Collected(k) == Collect(lines, k + 1, <<>>, lines[k])

\* C15: every emitted item has a content of at most 500 characters, a
\* description of at most 2000 characters and at most 20 subtasks, each the
\* prefix of the value before the limit was applied.
C15_Limits ==
    \A k \in 1..Len(items) :
        /\ Len(items[k].content) <= 500
        /\ Len(items[k].description) <= 2000
        /\ Len(items[k].subtasks) <= 20
        /\ C15_PrefixOf(items[k].content, StrippedContent(lines[opened[k]]), 500)
        /\ C15_PrefixOf(items[k].description, C15_Collected(opened[k]).description, 2000)
        /\ C15_PrefixOf(items[k].subtasks, C15_Collected(opened[k]).subtasks, 20)

\* C15 witness: an item whose content was cut at 500 characters and whose
\* description was cut at 2000 has been emitted.
C15_Witness ==
    /\ xpc = "done"
    /\ \E k \in 1..Len(items) :
          /\ Len(items[k].content) = 500
          /\ Len(StrippedContent(lines[opened[k]])) > 500
          /\ Len(items[k].description) = 2000
          /\ Len(lines[opened[k]]) > 2000

(***************************************************************************)
(* C16: the label of a qualifying line                                     *)
(***************************************************************************)

\* Markers of the three kinds, and the checkbox of a bulleted list.
C16_Markers == {"- ", "* ", "1. ", "2) ", "[ ] ", "[x] ", "- [x] "}

C16_Labels == {"action", "todo", "follow-up", "follow up", "next step", "deliverable"}

\* The heads "marker label:" that line l starts with.
C16_Heads(l) ==
    {h \in {m \o a \o ":" : m \in C16_Markers, a \in C16_Labels} :
        ToLowerCase(SliceTo(l, Len(h))) = h}

\* C16: an item opened by a line made of a marker, an explicit label and a
\* text has the text after the label as its content.
C16_LabelStripped ==
    \A k \in 1..Len(items) :
        \A h \in C16_Heads(lines[opened[k]]) :
            items[k].content = Trim(Slice(lines[opened[k]], Len(h)))

\* The same for the lines whose marker is a bullet or a number.
C16_LabelStrippedAfterBulletOrNumber ==
    \A k \in 1..Len(items) :
        \A h \in C16_Heads(lines[opened[k]]) :
            CharAt(lines[opened[k]], 1) # "[" /\ ~Includes(h, "[")
                => items[k].content = Trim(Slice(lines[opened[k]], Len(h)))

(***************************************************************************)
(* C17: the scored keyword stage                                           *)
(***************************************************************************)

\* The sections of bucket p that section matching accepts, for the content nc
\* and its tokens.
C17_Sections(nc, tokens, p) ==
    {c \in 1..Len(projects[p].sections) :
        LET name == ToLowerCase(projects[p].sections[c].name)
        IN  \/ Includes(nc, name)
            \/ \E t \in 1..Len(tokens) : Includes(name, tokens[t])}

\* The score C17 gives bucket p: one per occurrence of a token that is a
\* substring of the name, and 2 more when a section is found.
C17_Score(nc, tokens, p) ==
    LET name == ToLowerCase(projects[p].name)
    IN  Cardinality({t \in 1..Len(tokens) : Includes(name, tokens[t])})
            + (IF C17_Sections(nc, tokens, p) # {} THEN 2 ELSE 0)

\* The scores of all buckets, in their order.
C17_Scores ==
    LET nc == RNc
        tokens == RTokens
    IN  [p \in 1..Len(projects) |-> C17_Score(nc, tokens, p)]

\* What C17 says the stage selects, given the scores: nothing when every
\* score is 0, else the first bucket of highest score with the section found.
C17_Selected(scores) ==
    LET top == MaxOf({scores[p] : p \in 1..Len(projects)} \cup {0})
        first == MinOf({p \in 1..Len(projects) : scores[p] = top})
        found == C17_Sections(RNc, RTokens, first)
    IN  IF top = 0
        THEN EmptyBest
        ELSE [projectId |-> projects[first].id,
              sectionId |-> IF found = {} THEN Null
                            ELSE projects[first].sections[MinOf(found)].id,
              score |-> top]

\* C17: once the scored keyword stage has run, what it selected is the first
\* bucket of highest score when that score is positive, with the score and
\* the section found, and nothing when every score is 0.
C17_ScoredStage ==
    (rpc \in {"pattern", "done"} /\ via # "hint") => scored = C17_Selected(C17_Scores)

\* C17 witness: two buckets share the highest score, which is positive, and
\* the stage has selected the first of them.
C17_Witness ==
    /\ rpc = "done"
    /\ via # "hint"
    /\ scored.score > 0
    /\ \E p, q \in 1..Len(projects) :
          /\ p < q
          /\ C17_Scores[p] = scored.score
          /\ C17_Scores[q] = scored.score
          /\ scored.projectId = projects[p].id

(***************************************************************************)
(* C18: the domain keyword stage                                           *)
(***************************************************************************)

\* What C18 says the best is after rule k was taken, the best being b before.
C18_After(k, b) ==
    IF k \in AppliedRules /\ CandidateScore(k) > b.score
    THEN [projectId |-> CandidateBucket(k).id,
          sectionId |-> MatchSection(RNc, RTokens, CandidateBucket(k).sections),
          score |-> CandidateScore(k)]
    ELSE b

C18_Step ==
    (rpc = "pattern" /\ ruleIdx' = ruleIdx + 1) => best' = C18_After(ruleIdx, best)

\* C18: each step of the domain keyword stage takes the next rule of the
\* table; if a keyword of the rule occurs in the content and a bucket name
\* contains its target, the first such bucket, with score 2 or 3 with a
\* section, replaces the best when its score is strictly higher; otherwise
\* the best is left as it is.
C18_PatternStage == [][C18_Step]_vars

\* C18 witness: the rule just taken had a candidate whose score equals the
\* score of the best, and the best is still another bucket.
C18_Witness ==
    /\ rpc = "pattern"
    /\ ruleIdx > 1
    /\ (ruleIdx - 1) \in AppliedRules
    /\ CandidateScore(ruleIdx - 1) = best.score
    /\ best.projectId # CandidateBucket(ruleIdx - 1).id

(***************************************************************************)
(* matchSection as a state machine (utils/router.ts): one step per section *)
(* of the loop.  It is called by routeTask only, with the normalised       *)
(* content and its words.                                                  *)
(***************************************************************************)

MaxSections == 2

SectionCatalog ==
    {[id |-> "s1", name |-> "Code Review", projectId |-> "p1"],
     [id |-> "s2", name |-> "Backlog", projectId |-> "p1"],
     [id |-> "s4", name |-> "Voice", projectId |-> "p1"],
     [id |-> "s7", name |-> "Review Queue", projectId |-> "p1"]}

\* Every sequence of at most MaxSections distinct sections of the catalog.
SectionLists ==
    {ss \in UNION {[1..n -> SectionCatalog] : n \in 0..MaxSections} :
        \A a, b \in 1..Len(ss) : a # b => ss[a] # ss[b]}

SectionInit ==
    /\ mContent \in Contents
    /\ mSections \in SectionLists
    /\ mIdx = 1
    /\ mpc = "loop"
    /\ mResult = Null
    /\ RouteIdle
    /\ ExtractIdle
    /\ PmIdle
    /\ DateIdle
    /\ CallIdle
    /\ ClientIdle

\* One iteration of for (const section of sections).
MatchSectionStep ==
    /\ mpc = "loop"
    /\ mIdx <= Len(mSections)
    /\ LET nc == NormalizedContent(mContent)
       IN  IF SectionMatches(nc, Words(nc), mSections[mIdx])
           THEN /\ mResult' = mSections[mIdx].id
                /\ mpc' = "done"
                /\ UNCHANGED mIdx
           ELSE /\ mIdx' = mIdx + 1
                /\ UNCHANGED <<mResult, mpc>>
    /\ UNCHANGED <<mContent, mSections>>
    /\ UNCHANGED <<routeVars, extractVars, pmVars, dateVars, callVars, clientVars>>

\* return null
MatchSectionNone ==
    /\ mpc = "loop"
    /\ mIdx > Len(mSections)
    /\ mResult' = Null
    /\ mpc' = "done"
    /\ UNCHANGED <<mContent, mSections, mIdx>>
    /\ UNCHANGED <<routeVars, extractVars, pmVars, dateVars, callVars, clientVars>>

SectionNext ==
    \/ MatchSectionStep
    \/ MatchSectionNone

SpecSection == SectionInit /\ [][SectionNext]_vars

(***************************************************************************)
(* C19: section matching                                                   *)
(***************************************************************************)

\* The sections C19 accepts: the lowercased name is a substring of the
\* content, or some token of the content of length >= 2 is a substring of it.
C19_Accepted ==
    LET nc == Trim(ToLowerCase(mContent))
        tokens == SplitWs(nc)
    IN  {c \in 1..Len(mSections) :
            LET name == ToLowerCase(mSections[c].name)
            IN  \/ Includes(nc, name)
                \/ \E t \in 1..Len(tokens) : Len(tokens[t]) >= 2 /\ Includes(name, tokens[t])}

\* C19: matchSection returns the id of the first accepted section in the
\* order of the sections, and null when there is none.
C19_FirstSection ==
    mpc = "done" =>
        mResult = (IF C19_Accepted = {} THEN Null ELSE mSections[MinOf(C19_Accepted)].id)

\* C19 witness: two sections are both accepted and the id of the first has
\* been returned.
C19_Witness ==
    /\ mpc = "done"
    /\ C19_Accepted = {1, 2}
    /\ mResult = mSections[1].id

(***************************************************************************)
(* C20: the order of the calls of parseMeetingNotes                        *)
(***************************************************************************)

\* Call c of the log was the last of its item: a route without project, a
\* createTask that failed or that had no subtask to follow, a createSubtask
\* that failed or that was the last of the item.
C20_EndsItem(c) ==
    LET e == pmCalls[c]
    IN  \/ e.op = "routeTask" /\ e.projectId = ""
        \/ e.op = "createTask" /\ (~e.ok \/ Len(pmItems[e.item].subtasks) = 0)
        \/ e.op = "createSubtask" /\ (~e.ok \/ e.sub = Len(pmItems[e.item].subtasks))

\* Call c of the log, c > 1, is in its place after call c - 1.
C20_InPlace(c) ==
    LET e == pmCalls[c]
        d == pmCalls[c - 1]
    IN  CASE e.op = "routeTask" ->
                IF e.item = 1
                THEN d.op = "getProjects" /\ d.ok
                ELSE d.op # "getProjects" /\ d.item = e.item - 1 /\ C20_EndsItem(c - 1)
          [] e.op = "createTask" ->
                /\ d.op = "routeTask"
                /\ d.item = e.item
                /\ d.projectId # ""
                /\ e.projectId = d.projectId
                /\ e.content = pmItems[e.item].content
          [] e.op = "createSubtask" ->
                /\ e.content = pmItems[e.item].subtasks[e.sub]
                /\ IF e.sub = 1
                   THEN /\ d.op = "createTask"
                        /\ d.item = e.item
                        /\ d.ok
                        /\ e.parentId = d.taskId
                   ELSE /\ d.op = "createSubtask"
                        /\ d.item = e.item
                        /\ d.ok
                        /\ d.sub = e.sub - 1
                        /\ e.parentId = d.parentId
          [] OTHER -> FALSE

\* C20: the extractor is called once, before anything else; then the items
\* are taken in extraction order, each routed before its createTask, its
\* subtasks created in order after its createTask succeeded and under the
\* task just created, and no call for an item is made before the calls of
\* the item before it have ended.
C20_CallOrder ==
    /\ xCalls = (IF pmPc = "start" THEN 0 ELSE 1)
    /\ Len(pmCalls) >= 1 => pmCalls[1].op = "getProjects"
    /\ \A c \in 2..Len(pmCalls) : C20_InPlace(c)
    /\ pmPc = "done" /\ pmOutcome = "returned" =>
          /\ \A k \in 1..Len(pmItems) : Cardinality(CallsFor("routeTask", k)) = 1
          /\ Len(pmItems) > 0 => C20_EndsItem(Len(pmCalls))

\* C20 witness: the run has returned after creating the two subtasks of its
\* first item under the task of that item and then routing and creating its
\* second item.
C20_Witness ==
    /\ pmPc = "done"
    /\ pmOutcome = "returned"
    /\ \E c \in 1..Len(pmCalls) :
          /\ pmCalls[c].op = "createSubtask"
          /\ pmCalls[c].item = 1
          /\ pmCalls[c].sub = 2
          /\ pmCalls[c].ok
          /\ pmCalls[c].parentId = "t1"
          /\ c + 2 <= Len(pmCalls)
          /\ pmCalls[c + 1].op = "routeTask"
          /\ pmCalls[c + 2].op = "createTask"
          /\ pmCalls[c + 2].item = 2

(***************************************************************************)
(* C21: the ids routeTask returns                                          *)
(***************************************************************************)

\* The supplied buckets that carry the returned id.
C21_Returned == {p \in 1..Len(projects) : projects[p].id = routeResult.projectId}

\* C21: with at least one bucket, all ids being non-empty, routeTask returns
\* the id of a supplied bucket, never the empty id, and a returned section id
\* is the id of a section of the returned bucket.
C21_ResultIds ==
    (rpc = "done" /\ Len(projects) > 0) =>
        /\ routeResult.projectId # ""
        /\ C21_Returned # {}
        /\ routeResult.sectionId # Null =>
              \A p \in C21_Returned :
                  \E c \in 1..Len(projects[p].sections) :
                      projects[p].sections[c].id = routeResult.sectionId

\* C21 witness: two supplied buckets have sections, and the call has returned
\* the second of them with one of its sections.
C21_Witness ==
    /\ rpc = "done"
    /\ routeResult.sectionId # Null
    /\ \E p, q \in 1..Len(projects) :
          /\ p < q
          /\ Len(projects[p].sections) > 0
          /\ projects[q].id = routeResult.projectId
          /\ \E c \in 1..Len(projects[q].sections) :
                projects[q].sections[c].id = routeResult.sectionId

(***************************************************************************)
(* C22: the summary lines of parseMeetingNotes                             *)
(***************************************************************************)

\* The summary lines reporting item k as created, and as failed.
C22_CreatedLines(k) ==
    {j \in 1..Len(pmSummary) :
        StartsWith(pmSummary[j], "Created: \"" \o pmItems[k].content \o "\"")}

C22_FailedLines(k) ==
    {j \in 1..Len(pmSummary) :
        StartsWith(pmSummary[j], "Failed to create \"" \o pmItems[k].content \o "\"")}

C22_AllCreatedLines == {j \in 1..Len(pmSummary) : StartsWith(pmSummary[j], "Created: ")}

\* The reported count equals the number of Created lines.
C22_CreatedCount ==
    (pmPc = "done" /\ pmOutcome = "returned") =>
        /\ pmCreated = Cardinality(C22_AllCreatedLines)
        /\ StartsWith(pmResult,
              "Parsed " \o NumStr(Len(pmItems)) \o " action item(s); created "
                  \o NumStr(Cardinality(C22_AllCreatedLines)) \o " task(s).")

MaxRemote == 2

RemoteCatalog == {Engineering, Finance, Inbox}

\* Every sequence of at most MaxRemote distinct projects of the catalog.
RemoteLists ==
    {ps \in UNION {[1..n -> RemoteCatalog] : n \in 0..MaxRemote} :
        \A a, b \in 1..Len(ps) : a # b => ps[a] # ps[b]}

\* What the service answers to one refreshCache: the projects with their
\* sections, a rejected api.getProjects, or a rejected api.getSections of
\* some project (there is one such request per project; the projects of a
\* refresh that rejects are never stored, so two lists stand for them).
Responses ==
    {[list |-> l, failed |-> "none"] : l \in RemoteLists}
        \cup {[list |-> <<>>, failed |-> "getProjects"]}
        \cup {[list |-> l, failed |-> "getSections"] : l \in {<<Inbox>>, <<Engineering, Finance>>}}

ClientNames == {"finance", "  INBOX ", "Finance Team", "zebra", ""}

\* refreshCache: the requests it sends, and the cache it leaves.  Promise.all
\* has sent every getSections request before any of them can reject.
RefreshCache(c, resp) ==
    [api |-> IF resp.failed = "getProjects"
             THEN <<"getProjects">>
             ELSE <<"getProjects">> \o [k \in 1..Len(resp.list) |-> "getSections"],
     ok |-> resp.failed = "none",
     cache |-> IF resp.failed = "none" THEN Cached(resp.list) ELSE c]

\* A getProjects that also reloads a cache holding the empty list.
GetProjectsRefreshesEmpty(c, resp) ==
    IF c.isNull \/ c.projects = <<>>
    THEN LET r == RefreshCache(c, resp)
         IN  [api |-> r.api, ok |-> r.ok, cache |-> r.cache, loaded |-> r.ok,
              value |-> r.cache.projects]
    ELSE [api |-> <<>>, ok |-> TRUE, cache |-> c, loaded |-> FALSE, value |-> c.projects]

\* getProjects: if (!this.cache.projects) await this.refreshCache();
\* return this.cache.projects ?? [].  An empty array is not falsy.
GetProjects(c, resp) ==
    IF c.isNull
    THEN LET r == RefreshCache(c, resp)
         IN  [api |-> r.api, ok |-> r.ok, cache |-> r.cache, loaded |-> r.ok,
              value |-> r.cache.projects]
    ELSE [api |-> <<>>, ok |-> TRUE, cache |-> c, loaded |-> FALSE, value |-> c.projects]

\* The answers a call can get for a refresh it may send: one is enough when
\* it sends none.
ResponsesIf(needed, all) == IF needed THEN all ELSE {[list |-> <<>>, failed |-> "none"]}

\* p.name.toLowerCase().includes(normalized) ||
\* normalized.includes(p.name.toLowerCase())
ProjectNameMatches(p, normalized) ==
    LET lower == ToLowerCase(p.name)
    IN  Includes(lower, normalized) \/ Includes(normalized, lower)

\* projects.find(...) of findProjectByName: the index of the first match, 0
\* when there is none.
FindProject(list, normalized) ==
    FindIndex({k \in 1..Len(list) : ProjectNameMatches(list[k], normalized)})

\* The value of find(...) ?? null as a sequence: the project, or nothing.
Found(list, k) == IF k = 0 THEN <<>> ELSE <<list[k]>>

ClientInit ==
    /\ cache = NullCache
    /\ cCall = NoOperation
    /\ cSince = "never"
    /\ RouteIdle
    /\ ExtractIdle
    /\ PmIdle
    /\ DateIdle
    /\ CallIdle
    /\ SectionIdle

ClientGetProjects ==
    /\ \E resp \in ResponsesIf(cache.isNull, Responses) :
          LET g == GetProjects(cache, resp)
          IN  /\ cache' = g.cache
              /\ cSince' = IF g.loaded THEN "loaded" ELSE cSince
              /\ cCall' = [op |-> "getProjects", name |-> "", before |-> cache,
                           first |-> <<>>, forced |-> 0, lookups |-> 0, api |-> g.api,
                           ok |-> g.ok, value |-> IF g.ok THEN g.value ELSE <<>>]
    /\ UNCHANGED <<routeVars, extractVars, pmVars, dateVars, callVars, sectionVars>>

ClientRefreshCache ==
    /\ \E resp \in Responses :
          LET r == RefreshCache(cache, resp)
          IN  /\ cache' = r.cache
              /\ cSince' = IF r.ok THEN "loaded" ELSE cSince
              /\ cCall' = [op |-> "refreshCache", name |-> "", before |-> cache,
                           first |-> <<>>, forced |-> 0, lookups |-> 0, api |-> r.api,
                           ok |-> r.ok, value |-> <<>>]
    /\ UNCHANGED <<routeVars, extractVars, pmVars, dateVars, callVars, sectionVars>>

\* getSections(projectId): the sections of the cached project, else a
\* request of its own for them, which leaves the cache alone.
ClientGetSections ==
    /\ \E resp \in ResponsesIf(cache.isNull, Responses), projectId \in {"p1", "p2", "p9"},
          answered \in BOOLEAN :
          LET g == GetProjects(cache, resp)
              k == FindIndex({j \in 1..Len(g.value) : g.value[j].id = projectId})
              asks == g.ok /\ k = 0
          IN  /\ cache' = g.cache
              /\ cSince' = IF g.loaded THEN "loaded" ELSE cSince
              /\ cCall' = [op |-> "getSections", name |-> projectId, before |-> cache,
                           first |-> IF g.ok THEN g.value ELSE <<>>, forced |-> 0,
                           lookups |-> IF g.ok THEN 1 ELSE 0,
                           api |-> IF asks THEN g.api \o <<"getSections">> ELSE g.api,
                           ok |-> g.ok /\ (asks => answered),
                           value |-> IF g.ok /\ k # 0 THEN g.value[k].sections ELSE <<>>]
    /\ UNCHANGED <<routeVars, extractVars, pmVars, dateVars, callVars, sectionVars>>

\* findProjectByName: a lookup in what getProjects returns and, when
\* nothing matches, refreshCache, getProjects again and a second lookup.
ClientFindProjectByName ==
    /\ LET all == Responses
       IN  \E name \in ClientNames, resp1 \in ResponsesIf(cache.isNull, all) :
          LET g == GetProjects(cache, resp1)
              normalized == ToLowerCase(Trim(name))
              match == IF g.ok THEN FindProject(g.value, normalized) ELSE 0
              misses == g.ok /\ match = 0
          IN  \E resp2 \in ResponsesIf(misses, all) :
                 LET r == RefreshCache(g.cache, resp2)
                     again == GetProjects(r.cache, resp2)
                     second == FindProject(again.value, normalized)
                 IN  /\ cache' = IF misses THEN r.cache ELSE g.cache
                     /\ cSince' = IF g.loaded \/ (misses /\ r.ok) THEN "loaded" ELSE cSince
                     /\ cCall' =
                           [op |-> "findProjectByName", name |-> name, before |-> cache,
                            first |-> IF g.ok THEN g.value ELSE <<>>,
                            forced |-> IF misses THEN 1 ELSE 0,
                            lookups |-> IF ~g.ok THEN 0
                                        ELSE IF misses /\ r.ok THEN 2 ELSE 1,
                            api |-> IF misses THEN g.api \o r.api \o again.api ELSE g.api,
                            ok |-> g.ok /\ (misses => r.ok),
                            value |-> IF ~g.ok THEN <<>>
                                      ELSE IF ~misses THEN Found(g.value, match)
                                      ELSE IF r.ok THEN Found(again.value, second)
                                      ELSE <<>>]
    /\ UNCHANGED <<routeVars, extractVars, pmVars, dateVars, callVars, sectionVars>>

\* addSection: this.cache.projects = null once api.addSection has resolved.
ClientAddSection ==
    /\ \E answered \in BOOLEAN :
          /\ cache' = IF answered THEN NullCache ELSE cache
          /\ cSince' = IF answered THEN "invalidated" ELSE cSince
          /\ cCall' = [op |-> "addSection", name |-> "", before |-> cache,
                       first |-> <<>>, forced |-> 0, lookups |-> 0,
                       api |-> <<"addSection">>, ok |-> answered, value |-> <<>>]
    /\ UNCHANGED <<routeVars, extractVars, pmVars, dateVars, callVars, sectionVars>>

\* addProject: this.cache.projects = null once api.addProject has resolved.
ClientAddProject ==
    /\ \E answered \in BOOLEAN :
          /\ cache' = IF answered THEN NullCache ELSE cache
          /\ cSince' = IF answered THEN "invalidated" ELSE cSince
          /\ cCall' = [op |-> "addProject", name |-> "", before |-> cache,
                       first |-> <<>>, forced |-> 0, lookups |-> 0,
                       api |-> <<"addProject">>, ok |-> answered, value |-> <<>>]
    /\ UNCHANGED <<routeVars, extractVars, pmVars, dateVars, callVars, sectionVars>>

ClientNext ==
    \/ ClientGetProjects
    \/ ClientRefreshCache
    \/ ClientGetSections
    \/ ClientFindProjectByName
    \/ ClientAddSection
    \/ ClientAddProject

SpecClient == ClientInit /\ [][ClientNext]_vars

(***************************************************************************)
(* C23: the project cache                                                  *)
(***************************************************************************)

\* The requests of the last call that ask the service for the projects.
C23_Loads == {k \in 1..Len(cCall.api) : cCall.api[k] = "getProjects"}

\* The cache is empty exactly when it was never loaded, or addProject or
\* addSection has invalidated it since the last load.
C23_EmptyCache == cache.isNull <=> cSince \in {"never", "invalidated"}

\* getProjects contacts the service exactly when the cache it finds is
\* empty; otherwise it returns what is cached and leaves the cache as it is.
C23_GetProjects ==
    cCall.op = "getProjects" =>
        /\ (cCall.api # <<>>) <=> cCall.before.isNull
        /\ ~cCall.before.isNull =>
              /\ cCall.ok
              /\ cCall.value = cCall.before.projects
              /\ cache = cCall.before

\* findProjectByName, once getProjects has answered, forces a refresh
\* exactly when the name matches none of the projects getProjects returned,
\* forces one at most, looks again only after it, and otherwise asks the
\* service nothing beyond what getProjects did.
C23_FindProjectByName ==
    (cCall.op = "findProjectByName" /\ (cCall.ok \/ cCall.forced = 1)) =>
        LET normalized == ToLowerCase(Trim(cCall.name))
            matched == \E k \in 1..Len(cCall.first) :
                          ProjectNameMatches(cCall.first[k], normalized)
        IN  /\ cCall.forced = (IF matched THEN 0 ELSE 1)
            /\ cCall.lookups = 2 => cCall.forced = 1
            /\ cCall.ok => cCall.lookups = 1 + cCall.forced
            /\ Cardinality(C23_Loads) =
                  (IF cCall.before.isNull THEN 1 ELSE 0) + cCall.forced
            /\ (matched /\ ~cCall.before.isNull) => cache = cCall.before

\* C23: after any sequence of operations of the client, getProjects
\* contacts the service only when the project cache is empty (never loaded,
\* or invalidated by addProject or addSection since the last load) and
\* otherwise returns the cached list unchanged, and findProjectByName forces
\* one refresh and a second lookup only when the name matched no cached
\* project.
C23_CacheDiscipline ==
    /\ C23_EmptyCache
    /\ C23_GetProjects
    /\ C23_FindProjectByName

\* The cache holds the empty list, loaded earlier, and getProjects has
\* returned it without a request.
C23_Witness ==
    /\ cCall.op = "getProjects"
    /\ ~cCall.before.isNull
    /\ cCall.before.projects = <<>>
    /\ cCall.api = <<>>

\* findProjectByName found nothing in a loaded cache, refreshed once and
\* found the project in the second lookup.
C23_WitnessRefresh ==
    /\ cCall.op = "findProjectByName"
    /\ ~cCall.before.isNull
    /\ cCall.forced = 1
    /\ cCall.lookups = 2
    /\ cCall.value # <<>>
    /\ cSince = "loaded"

(***************************************************************************)
(* C24: termination of extractActionItems                                  *)
(***************************************************************************)

\* The number of lines of the text that are not blank.
C24_NonBlank ==
    IF NotText(text)
    THEN 0
    ELSE LET raw == SplitLines(text.value)
         IN  Cardinality({k \in 1..Len(raw) : Trim(raw[k]) # ""})

\* Each item was opened by a line already scanned, consumed only lines that
\* lie before the opening line of the next item and before the scan index
\* (the iteration that opened it ended before them), and is the item its
\* opening line gives; there are no more items than non-blank lines.
C24_Consumption ==
    LET nonBlank == C24_NonBlank
    IN  /\ Len(items) = Len(opened)
        /\ Len(items) <= nonBlank
        /\ xpc # "start" => Len(lines) = nonBlank
        /\ \A k \in 1..Len(opened) :
              /\ opened[k] \in 1..Len(lines)
              /\ LET r == ScanOne(lines, opened[k])
                     lastConsumed == r.next - 1
                 IN  /\ opened[k] <= lastConsumed
                     /\ lastConsumed < (IF k < Len(opened) THEN opened[k + 1] ELSE i)
                     /\ items[k] = r.item

\* Each iteration of the line loop leaves the scan index larger than it
\* found it, and an item pushed in it was opened by the line it found.
C24_IndexIncreases ==
    (xpc = "scan" /\ xpc' = "scan") =>
        /\ i' > i
        /\ Len(opened') > Len(opened) => opened'[Len(opened')] = i

\* C24: extractActionItems terminates on every input: the scan index
\* strictly increases at each step of the line loop, every non-blank line is
\* examined as an opening line at most once and consumed by at most one
\* item, so there are never more items than non-blank lines, and the items
\* are in the order of their opening lines.
C24_Terminates ==
    /\ <>(xpc = "done")
    /\ [][C24_IndexIncreases]_vars
    /\ []C24_Consumption

\* The call has returned an item opened after a line that opened none, of
\* a text that also had a blank line.
C24_Witness ==
    /\ xpc = "done"
    /\ Len(items) >= 1
    /\ opened[1] > 1
    /\ Len(items) < Len(lines)
    /\ Len(lines) < Len(SplitLines(text.value))
====
